---- MODULE Spec2Model ----
(***************************************************************************)
(* A model of ospd's scan registry (ospd/misc.py, class ScanCollection)    *)
(* and of the helpers it calls.                                            *)
(*                                                                         *)
(* Representation.                                                         *)
(*  - A host is the 32-bit value of its IPv4 address (socket.inet_ntoa and *)
(*    inet_pton are inverse on dotted quads, so string equality of hosts   *)
(*    is equality of the values). A host that is no dotted quad (a host    *)
(*    name) is a negative number, one per distinct string.                 *)
(*  - A target string is the sequence of its comma-separated tokens, each  *)
(*    token a record [kind, addr, arg] naming the form it parses as.       *)
(*  - A Python dict of options is the set of its <<name, value>> items.    *)
(*  - A port string is the sequence of its characters.                     *)
(*  - A return value or a raised exception is a string: "None", "True",    *)
(*    "False", a scan id, or the exception's class name.                   *)
(*  - scan_info['end_time'] is a number; EndTimeSentinel stands for the    *)
(*    string "0" that create_scan stores, clock readings are >= 1.         *)
(***************************************************************************)
EXTENDS Integers, Sequences, FiniteSets, TLC

\* scans_table   self.scans_table: scan_id -> scan_info
\* data_manager  whether self.data_manager holds a Manager (TRUE) or None
\* last          the call that completed last: its name, scan_id argument,
\*               return value or exception, and the branch it took; for a
\*               query also its other arguments and the value it returned
\* procs         the calls in progress in the coordinator and the workers,
\*               the results whose add_result call has completed and, in
\*               call order, the results added to and drained from a scan
VARIABLES scans_table, data_manager, last, procs

vars == <<scans_table, data_manager, last, procs>>

(***************************************************************************)
(* Bounds of the model.                                                    *)
(***************************************************************************)
MaxResults == 2

MaxFinished == 1

\* Hosts reported finished for the one scan whose unfinished hosts are queried
MaxFinishedOfScan == 2

\* Results added to the one scan whose results are fetched
MaxSent == 3

\* Host bits (32 - block) of the largest CIDR block that is expanded
MaxHostBits == 8

(***************************************************************************)
(* Program constants.                                                      *)
(***************************************************************************)
EndTimeSentinel == 0

INIT == "INIT"

RUNNING == "RUNNING"

STOPPED == "STOPPED"

FINISHED == "FINISHED"

ScanStatus == {INIT, RUNNING, STOPPED, FINISHED}

(***************************************************************************)
(* Inputs the operations are called with.                                  *)
(***************************************************************************)
NoneId == "<None>"

EmptyId == ""

\* Identifiers, whether a client supplied them or uuid4 generated them
ScanIds == {"id1", "id2"}

ScanIdInputs == {NoneId, EmptyId} \cup ScanIds

\* Readings of int(time.time())
Times == {1}

\* 10.0.0.0, 10.0.0.1, 10.0.0.2
Net10 == 167772160

Host1 == Net10 + 1

Host2 == Net10 + 2

Hosts == {Host1, Host2}

\* "10.0.0.0/30"
TargetCidr == << [kind |-> "ipv4_cidr", addr |-> Net10, arg |-> 30] >>

\* "10.0.0.1-10.0.0.2"
TargetLong == << [kind |-> "ipv4_long", addr |-> Host1, arg |-> Host2] >>

Triple(target) == [target |-> target, ports |-> "T:22", credentials |-> "none"]

TargetsInputs == { << Triple(TargetCidr) >> }

OptionsNone == [none |-> TRUE, items |-> {}]

Options(items) == [none |-> FALSE, items |-> items]

OptionsInputs == { OptionsNone, Options({}), Options({<<"a", 1>>}) }

VtsInputs == {"vt1"}

\* Progress values the backends report, in and out of range
ProgressInputs == {-1, 0, 1, 50, 100, 101}

\* 10.0.0.3, the broadcast address of 10.0.0.0/30
Host3 == Net10 + 3

\* Readings of int(time.time()) when progress is reported
StampTimes == {1, 2}

\* 10.0.0.4
Host4 == Net10 + 4

\* "10.0.0.1-10.0.0.4"
Target4 == << [kind |-> "ipv4_long", addr |-> Host1, arg |-> Host4] >>

\* "10.0.0.0/31", which no form of target matches
TargetBad == << [kind |-> "ipv4_cidr", addr |-> Net10, arg |-> 31] >>

\* The processes that call into the registry beside the coordinator
Workers == {"w1", "w2"}

\* The same with an empty name, an empty value or both
ResultFieldInputs ==
  { [type |-> 1, host |-> h, name |-> n, value |-> v] :
      h \in Hosts, n \in {"", "n"}, v \in {"", "v"} }

\* The result fields add_result is called with (type, host, name, value).
ResultInputs ==
  { [type |-> 1, host |-> h, name |-> "n", value |-> ""] : h \in Hosts }

(***************************************************************************)
(* Target resolution: the part of the resolver the registry relies on.     *)
(***************************************************************************)
Pow2(n) == 2 ^ n

\* 0xffffffff >> block, for 1 <= block <= 32
AllOnesShiftRight(block) ==
  IF block = 1 THEN 2147483647 ELSE Pow2(32 - block) - 1

RECURSIVE BitOr(_, _)
BitOr(a, b) ==
  IF a = 0 THEN b
  ELSE IF b = 0 THEN a
  ELSE 2 * BitOr(a \div 2, b \div 2) + (IF a % 2 = 1 \/ b % 2 = 1 THEN 1 ELSE 0)

\* range(start, end + 1) mapped to addresses
ipv4_range_to_list(start, end) ==
  IF end < start THEN << >> ELSE [i \in 1..(end - start + 1) |-> start + i - 1]

NoList == [ok |-> FALSE, hosts |-> << >>]

SomeList(hosts) == [ok |-> TRUE, hosts |-> hosts]

\* The whole block, its network and broadcast addresses included
target_to_ipv4_cidr_whole_block(addr, block) ==
  IF block <= 0 \/ block > 30 THEN NoList
  ELSE LET shifted == addr \div Pow2(32 - block)
           start_value == shifted * Pow2(32 - block)
           end_value == BitOr(start_value, AllOnesShiftRight(block))
       IN  SomeList(ipv4_range_to_list(start_value, end_value))

target_to_ipv4_cidr(addr, block) ==
  IF block <= 0 \/ block > 30 THEN NoList
  ELSE LET shifted == addr \div Pow2(32 - block)
           start_value == shifted * Pow2(32 - block) + 1
           end_value == BitOr(start_value, AllOnesShiftRight(block)) - 1
       IN  SomeList(ipv4_range_to_list(start_value, end_value))

target_to_ipv4_long(start, end) ==
  IF end < start THEN NoList ELSE SomeList(ipv4_range_to_list(start, end))

\* The string "a-b" of two dotted quads, taken as a host name
LongAsName(start, end) == 0 - ((start - Net10) * 256 + (end - Net10) + 1)

\* re.match(r'^[\w.-]+$', target): a host name and "a-b" match, a token with
\* a '/' or a space and the empty token do not
target_to_hostname(token) ==
  CASE token.kind = "hostname" -> SomeList(<< token.addr >>)
    [] token.kind = "ipv4_long" -> SomeList(<< LongAsName(token.addr, token.arg) >>)
    [] OTHER -> NoList

\* "if not new_list" also falls through on an empty list
target_to_list(token) ==
  LET r == CASE token.kind = "ipv4" -> SomeList(<< token.addr >>)
             [] token.kind = "ipv4_cidr" -> target_to_ipv4_cidr(token.addr, token.arg)
             [] token.kind = "ipv4_long" -> target_to_ipv4_long(token.addr, token.arg)
             [] OTHER -> NoList
  IN  IF r.ok /\ r.hosts # << >> THEN r ELSE target_to_hostname(token)

\* The list with its duplicates kept
OrderedDistinct_keeps(s) == s

RECURSIVE OrderedDistinct(_)
OrderedDistinct(s) ==
  IF s = << >> THEN << >>
  ELSE LET rest == OrderedDistinct(SubSeq(s, 1, Len(s) - 1))
           x == s[Len(s)]
       IN  IF \E i \in DOMAIN rest : rest[i] = x THEN rest ELSE Append(rest, x)

RECURSIVE target_str_to_list_loop(_, _)
\* The loop with a token that matches no form skipped
target_str_to_list_loop_partial(tokens, new_list) ==
  IF tokens = << >> THEN SomeList(OrderedDistinct(new_list))
  ELSE LET target_list == target_to_list(Head(tokens))
       IN  target_str_to_list_loop(Tail(tokens), new_list \o target_list.hosts)

target_str_to_list_loop(tokens, new_list) ==
  IF tokens = << >> THEN SomeList(OrderedDistinct(new_list))
  ELSE LET target_list == target_to_list(Head(tokens))
       IN  IF target_list.ok
           THEN target_str_to_list_loop(Tail(tokens), new_list \o target_list.hosts)
           ELSE NoList

target_str_to_list(target_str) == target_str_to_list_loop(target_str, << >>)

(***************************************************************************)
(* Helpers on Python lists.                                                *)
(***************************************************************************)
Ok(val) == [exc |-> "", val |-> val]

Raise(exc) == [exc |-> exc, val |-> << >>]

InSeq(x, s) == \E i \in DOMAIN s : s[i] = x

\* list.remove(x): drops the first occurrence; the caller checks InSeq first
RemoveFirst(s, x) ==
  LET i == CHOOSE k \in DOMAIN s : s[k] = x /\ \A j \in 1..(k - 1) : s[j] # x
  IN  SubSeq(s, 1, i - 1) \o SubSeq(s, i + 1, Len(s))

\* The keys of dict([[target, ...] for target, _, _ in targets]), in order
TargetKeys(targets) == OrderedDistinct([i \in DOMAIN targets |-> targets[i].target])

Truthy(options) == ~options.none /\ options.items # {}

(***************************************************************************)
(* Python strings: indexing, slicing and the str methods the port          *)
(* functions use. Positions are counted from 0 as in the source.           *)
(***************************************************************************)
DigitChars == << "0", "1", "2", "3", "4", "5", "6", "7", "8", "9" >>

IsDigit(c) == \E d \in DOMAIN DigitChars : DigitChars[d] = c

DigitVal(c) == (CHOOSE d \in DOMAIN DigitChars : DigitChars[d] = c) - 1

\* s[i], with a negative i counted from the end
PyIndex(s, i) ==
  IF i >= Len(s) \/ i < 0 - Len(s) THEN Raise("IndexError")
  ELSE Ok(s[(IF i < 0 THEN i + Len(s) ELSE i) + 1])

Clamp(i, n) ==
  IF i < 0 THEN (IF i + n < 0 THEN 0 ELSE i + n) ELSE IF i > n THEN n ELSE i

\* s[a:b]
PySlice(s, a, b) ==
  LET lo == Clamp(a, Len(s))
      hi == Clamp(b, Len(s))
  IN  IF lo >= hi THEN << >> ELSE SubSeq(s, lo + 1, hi)

\* s[a:]
PySliceFrom(s, a) == PySlice(s, a, Len(s))

\* s.find(c)
find(s, c) ==
  IF \E i \in DOMAIN s : s[i] = c
  THEN (CHOOSE i \in DOMAIN s : s[i] = c /\ \A j \in 1..(i - 1) : s[j] # c) - 1
  ELSE -1

\* s.count(c)
count(s, c) == Cardinality({i \in DOMAIN s : s[i] = c})

\* s.index(c1 + c2), ValueError when the two characters are not in s
index2(s, c1, c2) ==
  LET at == {i \in 1..(Len(s) - 1) : s[i] = c1 /\ s[i + 1] = c2}
  IN  IF at = {} THEN Raise("ValueError")
      ELSE Ok((CHOOSE i \in at : \A j \in at : i <= j) - 1)

\* s.replace(c, '')
remove_char(s, c) == SelectSeq(s, LAMBDA x : x # c)

\* s.split(c)
RECURSIVE split(_, _)
split(s, c) ==
  IF find(s, c) = -1 THEN << s >>
  ELSE << PySlice(s, 0, find(s, c)) >> \o split(PySliceFrom(s, find(s, c) + 1), c)

RECURSIVE DigitsValue(_)
DigitsValue(s) ==
  IF s = << >> THEN 0
  ELSE 10 * DigitsValue(SubSeq(s, 1, Len(s) - 1)) + DigitVal(s[Len(s)])

AllDigits(s) == s # << >> /\ \A i \in DOMAIN s : IsDigit(s[i])

\* int(s) of a string without blanks: digits, with or without a sign '-'
int(s) ==
  IF AllDigits(s) THEN Ok(DigitsValue(s))
  ELSE IF s # << >> /\ s[1] = "-" /\ AllDigits(Tail(s))
       THEN Ok(0 - DigitsValue(Tail(s)))
       ELSE Raise("ValueError")

\* str(n) for n >= 0
RECURSIVE str(_)
str(n) ==
  IF n < 10 THEN << DigitChars[n + 1] >>
  ELSE str(n \div 10) \o << DigitChars[(n % 10) + 1] >>

\* list.sort() and sorted()
Sorted(s) == SortSeq(s, LAMBDA a, b : a < b)

\* range(a, b + 1) as a list
RangeList(a, b) == IF b < a THEN << >> ELSE [i \in 1..(b - a + 1) |-> a + i - 1]

(***************************************************************************)
(* The port functions.                                                     *)
(***************************************************************************)
\* Raise("None") stands for the return of None
port_range_expand(portrange) ==
  IF portrange = << >> \/ find(portrange, "-") = -1 THEN Raise("None")
  ELSE LET first == int(PySlice(portrange, 0, find(portrange, "-")))
           last_port == int(PySliceFrom(portrange, find(portrange, "-") + 1))
       IN  IF first.exc # "" THEN first
           ELSE IF last_port.exc # "" THEN last_port
                ELSE Ok(RangeList(first.val, last_port.val))

\* The string returned as it is
port_str_arrange_keeps(ports) == ports

port_str_arrange(ports) ==
  LET b_tcp == find(ports, "T")
      b_udp == find(ports, "U")
  IN  IF (b_udp # -1 /\ b_tcp # -1) /\ b_udp < b_tcp
      THEN PySliceFrom(ports, b_tcp) \o PySlice(ports, b_udp, b_tcp)
      ELSE ports

PortChars == {"T", "U", ":", ",", " ", "-"}

\* The check without the counts of 'T' and 'U'
ports_str_check_failed_letters_free(port_str) ==
  \/ \E i \in DOMAIN port_str :
       port_str[i] \notin PortChars /\ ~IsDigit(port_str[i])
  \/ count(port_str, ":") < count(port_str, "T") + count(port_str, "U")

ports_str_check_failed(port_str) ==
  \/ \E i \in DOMAIN port_str :
       port_str[i] \notin PortChars /\ ~IsDigit(port_str[i])
  \/ count(port_str, "T") > 1
  \/ count(port_str, "U") > 1
  \/ count(port_str, ":") < count(port_str, "T") + count(port_str, "U")

\* for port in ports.split(','): extend or append; list.extend(None) raises
\* TypeError
RECURSIVE port_loop(_, _)
port_loop(items, port_list) ==
  IF items = << >> THEN Ok(port_list)
  ELSE LET port == Head(items)
       IN  IF find(port, "-") # -1
           THEN LET expanded == port_range_expand(port)
                IN  IF expanded.exc = "None" THEN Raise("TypeError")
                    ELSE IF expanded.exc # "" THEN expanded
                         ELSE port_loop(Tail(items), port_list \o expanded.val)
           ELSE LET single == int(port)
                IN  IF single.exc # "" THEN single
                    ELSE port_loop(Tail(items), Append(port_list, single.val))

\* if tports: ...; tcp_list.sort()
ports_of(segment) ==
  IF segment = << >> THEN Ok(<< >>)
  ELSE LET port_list == port_loop(split(segment, ","), << >>)
       IN  IF port_list.exc # "" THEN port_list ELSE Ok(Sorted(port_list.val))

PortsInvalid == [ret |-> "Invalid", tcp |-> << >>, udp |-> << >>]

PortsRaise(exc) == [ret |-> exc, tcp |-> << >>, udp |-> << >>]

\* The comma before position b kept
strip_comma_before_keeps(ports, b) == Ok(ports)

\* ports with the character before position b dropped when it is a comma
strip_comma_before(ports, b) ==
  LET before == PyIndex(ports, b - 1)
  IN  IF before.exc # "" THEN before
      ELSE IF before.val = ","
           THEN Ok(PySlice(ports, 0, b - 1) \o PySliceFrom(ports, b))
           ELSE Ok(ports)

\* tports and uports cut out of the arranged string
segments(ports, b_tcp, b_udp) ==
  LET t == index2(ports, "T", ":")
      u == index2(ports, "U", ":")
  IN  IF b_udp # -1 /\ b_tcp # -1
      THEN IF t.exc # "" THEN t
           ELSE IF u.exc # "" THEN u
                ELSE Ok(<< PySlice(ports, t.val + 2, u.val),
                           PySliceFrom(ports, u.val + 2) >>)
      ELSE IF b_tcp = -1 /\ b_udp # -1
           THEN IF u.exc # "" THEN u ELSE Ok(<< << >>, PySliceFrom(ports, u.val + 2) >>)
           ELSE IF b_udp = -1 /\ b_tcp # -1
                THEN IF t.exc # "" THEN t
                     ELSE Ok(<< PySliceFrom(ports, t.val + 2), << >> >>)
                ELSE Ok(<< ports, << >> >>)

ports_as_list(port_str) ==
  IF port_str = << >> THEN PortsInvalid
  ELSE IF ports_str_check_failed(port_str) THEN PortsInvalid
  ELSE LET ports == remove_char(port_str, " ")
           b_tcp == find(ports, "T")
           b_udp == find(ports, "U")
           no_tcp_comma == strip_comma_before(ports, b_tcp)
       IN  IF no_tcp_comma.exc # "" THEN PortsRaise(no_tcp_comma.exc)
           ELSE LET no_udp_comma == strip_comma_before(no_tcp_comma.val, b_udp)
                IN  IF no_udp_comma.exc # "" THEN PortsRaise(no_udp_comma.exc)
                    ELSE LET cut == segments(port_str_arrange(no_udp_comma.val),
                                             b_tcp, b_udp)
                         IN  IF cut.exc # "" THEN PortsRaise(cut.exc)
                             ELSE LET tcp_list == ports_of(cut.val[1])
                                      udp_list == ports_of(cut.val[2])
                                  IN  IF tcp_list.exc # "" THEN PortsRaise(tcp_list.exc)
                                      ELSE IF udp_list.exc # ""
                                           THEN PortsRaise(udp_list.exc)
                                           ELSE [ret |-> "lists",
                                                 tcp |-> tcp_list.val,
                                                 udp |-> udp_list.val]

\* sorted(set(port_list))
RECURSIVE Uniq(_)
Uniq(s) ==
  IF Len(s) <= 1 THEN s
  ELSE IF s[1] = s[2] THEN Uniq(Tail(s)) ELSE << s[1] >> \o Uniq(Tail(s))

\* The end of the run of consecutive ports that starts at position i
RECURSIVE RunEnd(_, _)
RunEnd(port_list, i) ==
  IF i < Len(port_list) /\ port_list[i + 1] = port_list[i] + 1
  THEN RunEnd(port_list, i + 1)
  ELSE i

\* itertools.groupby on value - position: one string per run
RECURSIVE compressed_list(_, _)
compressed_list(port_list, i) ==
  IF i > Len(port_list) THEN << >>
  ELSE LET j == RunEnd(port_list, i)
       IN  << IF j = i THEN str(port_list[i])
              ELSE str(port_list[i]) \o << "-" >> \o str(port_list[j]) >>
           \o compressed_list(port_list, j + 1)

\* ','.join(compressed_list)
RECURSIVE join(_, _)
join(c, parts) ==
  IF parts = << >> THEN << >>
  ELSE IF Len(parts) = 1 THEN parts[1]
       ELSE parts[1] \o << c >> \o join(c, Tail(parts))

port_list_compress(port_list) ==
  IF port_list = << >> THEN << >>
  ELSE join(",", compressed_list(Uniq(Sorted(port_list)), 1))

(***************************************************************************)
(* Queries.                                                                *)
(***************************************************************************)
id_exists(scan_id) == scan_id \in DOMAIN scans_table

get_status(scan_id) == scans_table[scan_id].status

RECURSIVE ExtendAll(_, _, _)
ExtendAll(keys, i, acc) ==
  IF i > Len(keys) THEN Ok(acc)
  ELSE LET l == target_str_to_list(keys[i])
       IN  IF l.ok THEN ExtendAll(keys, i + 1, acc \o l.hosts)
           ELSE Raise("TypeError")

RECURSIVE RemoveAll(_, _)
RemoveAll(finished, acc) ==
  IF finished = << >> THEN Ok(acc)
  ELSE IF InSeq(Head(finished), acc)
       THEN RemoveAll(Tail(finished), RemoveFirst(acc, Head(finished)))
       ELSE Raise("ValueError")

RECURSIVE Flatten(_, _, _)
Flatten(keys, finished_hosts, i) ==
  IF i > Len(keys) THEN << >>
  ELSE finished_hosts[keys[i]] \o Flatten(keys, finished_hosts, i + 1)

get_hosts_unfinished(info) ==
  LET keys == TargetKeys(info.targets)
      all == ExtendAll(keys, 1, << >>)
  IN  IF all.exc # "" THEN all
      ELSE RemoveAll(Flatten(keys, info.finished_hosts, 1), all.val)

RECURSIVE Gcd(_, _)
Gcd(a, b) == IF b = 0 THEN a ELSE Gcd(b, a % b)

\* The interpreters the package runs under
PythonVersions == {2, 3}

\* a / b of two ints, b > 0: the floor in Python 2, the quotient (a fraction
\* in lowest terms) in Python 3
Quotient(a, b, py) ==
  IF py = 2 THEN << a \div b, 1 >>
  ELSE << a \div Gcd(a, b), b \div Gcd(a, b) >>

\* sum(host_progresses.values())
RECURSIVE SumValues(_)
SumValues(d) ==
  IF d = {} THEN 0
  ELSE LET item == CHOOSE x \in d : TRUE IN item[2] + SumValues(d \ {item})

\* The sum divided by the number of hosts that reported
t_prog_of_reported(host_progresses, total_hosts, py) ==
  IF host_progresses = {} THEN << 0, 1 >>
  ELSE Quotient(SumValues(host_progresses), Cardinality(host_progresses), py)

t_prog(host_progresses, total_hosts, py) ==
  Quotient(SumValues(host_progresses), total_hosts, py)

\* Every failure turned into a progress of 0
get_target_progress_swallowed(info, target, py) ==
  LET target_list == target_str_to_list(target)
  IN  IF target_list.ok /\ target \in DOMAIN info.target_progress
                        /\ Len(target_list.hosts) # 0
      THEN Ok(t_prog(info.target_progress[target], Len(target_list.hosts), py))
      ELSE Ok(<< 0, 1 >>)

\* len(None) raises TypeError, None.values() AttributeError, and the handler
\* of ZeroDivisionError raises NameError for the name get_target_progress
get_target_progress(info, target, py) ==
  LET target_list == target_str_to_list(target)
  IN  IF ~target_list.ok THEN Raise("TypeError")
      ELSE IF target \notin DOMAIN info.target_progress
           THEN Raise("AttributeError")
           ELSE IF Len(target_list.hosts) = 0 THEN Raise("NameError")
                ELSE Ok(t_prog(info.target_progress[target],
                               Len(target_list.hosts), py))

\* del self.scans_table[scan_id]['results'][result]: the index is the result
\* dict itself, which a list rejects
remove_single_result(results, result) == "TypeError"

RECURSIVE del_results_loop(_, _, _)
del_results_loop(results, i, unfinished_hosts) ==
  IF i > Len(results) THEN ""
  ELSE IF InSeq(results[i].host, unfinished_hosts)
       THEN remove_single_result(results, results[i])
       ELSE del_results_loop(results, i + 1, unfinished_hosts)

\* The exception del_results_for_stopped_hosts ends with, "" for none
del_results_for_stopped_hosts(info) ==
  LET unfinished_hosts == get_hosts_unfinished(info)
  IN  IF unfinished_hosts.exc # "" THEN unfinished_hosts.exc
      ELSE del_results_loop(info.results, 1, unfinished_hosts.val)

\* How many results, and how many finished-host entries, the table holds
RECURSIVE SumOver(_, _)
SumOver(f, S) ==
  IF S = {} THEN 0
  ELSE LET k == CHOOSE x \in S : TRUE IN f[k] + SumOver(f, S \ {k})

StoredResults ==
  SumOver([k \in DOMAIN scans_table |-> Len(scans_table[k].results)],
          DOMAIN scans_table)

FinishedOf(info) ==
  SumOver([t \in DOMAIN info.finished_hosts |-> Len(info.finished_hosts[t])],
          DOMAIN info.finished_hosts)

StoredFinished ==
  SumOver([k \in DOMAIN scans_table |-> FinishedOf(scans_table[k])],
          DOMAIN scans_table)

(***************************************************************************)
(* Operations of ScanCollection, each one call.                            *)
(***************************************************************************)
Called(op, scan_id, ret, path) ==
  [op |-> op, scan_id |-> scan_id, ret |-> ret, path |-> path,
   args |-> << >>, val |-> << >>]

\* A query that returned val, or raised ret, when called with args
Returned(op, scan_id, args, ret, val) ==
  [op |-> op, scan_id |-> scan_id, ret |-> ret, path |-> "",
   args |-> args, val |-> val]

\* A process between two calls
IdleWorker == [pc |-> "idle", scan_id |-> EmptyId, results |-> << >>]

IdleCoord == [pc |-> "idle", scan_id |-> EmptyId]

Init ==
  /\ scans_table = << >>
  /\ data_manager = FALSE
  /\ last = Called("__init__", EmptyId, "None", "")
  /\ procs = [ workers |-> [w \in Workers |-> IdleWorker],
                coord |-> IdleCoord,
                added |-> {},
                sent |-> << >>,
                fetched |-> << >> ]

resume_options(old, options) == IF Truthy(options) THEN options.items ELSE old

resume_scan(scan_id, options) ==
  LET info == [scans_table[scan_id] EXCEPT
                 !.status = INIT,
                 !.options = resume_options(@, options)]
      exc == del_results_for_stopped_hosts(info)
  IN  /\ scans_table' = [scans_table EXCEPT ![scan_id] = info]
      /\ last' = Called("create_scan", scan_id,
                        IF exc = "" THEN scan_id ELSE exc, "resume")

new_scan_info(scan_id, targets, options, vts, now) ==
  [ results |-> << >>,
    finished_hosts |-> [t \in {targets[i].target : i \in DOMAIN targets} |-> << >>],
    progress |-> 0,
    target_progress |-> [t \in {targets[i].target : i \in DOMAIN targets} |-> {}],
    targets |-> targets,
    vts |-> vts,
    options |-> IF Truthy(options) THEN options.items ELSE {},
    start_time |-> now,
    end_time |-> EndTimeSentinel,
    status |-> INIT,
    scan_id |-> scan_id ]

Store(table, scan_id, info) ==
  [k \in DOMAIN table \cup {scan_id} |-> IF k = scan_id THEN info ELSE table[k]]

\* No call taken as a resume
takes_resume_never(scan_id) == FALSE

\* A resume of any record that exists, whatever its status
takes_resume_any_status(scan_id) ==
  /\ scan_id \notin {NoneId, EmptyId}
  /\ id_exists(scan_id)

takes_resume(scan_id) ==
  /\ scan_id \notin {NoneId, EmptyId}
  /\ id_exists(scan_id)
  /\ get_status(scan_id) = STOPPED

\* str(uuid.uuid4()): an identifier no scan of the table has; drawn only when
\* create_scan generates one
uuid4(scan_id) ==
  IF scan_id \in {NoneId, EmptyId} THEN ScanIds \ DOMAIN scans_table ELSE {scan_id}

create_scan(scan_id, targets, options, vts, now, uuid) ==
  /\ data_manager' = TRUE
  /\ IF takes_resume(scan_id)
     THEN resume_scan(scan_id, options)
     ELSE LET new_id == IF scan_id \in {NoneId, EmptyId} THEN uuid ELSE scan_id
          IN  /\ scans_table' =
                   Store(scans_table, new_id,
                         new_scan_info(new_id, targets, options, vts, now))
              /\ last' = Called("create_scan", scan_id, new_id, "fresh")

set_status(scan_id, status) ==
  /\ id_exists(scan_id)
  /\ scans_table' = [scans_table EXCEPT ![scan_id].status = status]
  /\ last' = Called("set_status", scan_id, "None", "")
  /\ UNCHANGED data_manager

\* self.scans_table.pop(scan_id), every record removed with it
Remove_all(table, scan_id) == << >>

Remove(table, scan_id) == [k \in DOMAIN table \ {scan_id} |-> table[k]]

\* A deletion refused unless the scan is FINISHED
delete_refused_unless_finished(scan_id) == get_status(scan_id) # FINISHED

delete_refused(scan_id) == get_status(scan_id) = RUNNING

\* if len(self.scans_table) == 0, never taken
len_is_zero_never(table) == FALSE

len_is_zero(table) == DOMAIN table = {}

delete_scan(scan_id) ==
  /\ id_exists(scan_id)
  /\ IF delete_refused(scan_id)
     THEN /\ last' = Called("delete_scan", scan_id, "False", "")
          /\ UNCHANGED <<scans_table, data_manager>>
     ELSE /\ scans_table' = Remove(scans_table, scan_id)
          /\ data_manager' =
               IF len_is_zero(Remove(scans_table, scan_id)) THEN FALSE
               ELSE data_manager
          /\ last' = Called("delete_scan", scan_id, "True", "")

\* The entry with result['name'] and result['value'] exchanged
make_result_swapped(r) ==
  [ type |-> r.type, name |-> r.value, severity |-> "", test_id |-> "",
    value |-> r.name, host |-> r.host, port |-> "", qod |-> "" ]

make_result(r) ==
  [ type |-> r.type, name |-> r.name, severity |-> "", test_id |-> "",
    value |-> r.value, host |-> r.host, port |-> "", qod |-> "" ]

add_result(scan_id, r) ==
  /\ id_exists(scan_id)
  /\ StoredResults < MaxResults
  /\ IF r.name = "" /\ r.value = ""
     THEN /\ last' = Called("add_result", scan_id, "AssertionError", "")
          /\ UNCHANGED scans_table
     ELSE /\ scans_table' =
               [scans_table EXCEPT ![scan_id].results = Append(@, make_result(r))]
          /\ last' = Called("add_result", scan_id, "None", "")
  /\ UNCHANGED data_manager

\* self.scans_table[scan_id]['results'] = list(), the list left as it is
drained_keeps(results) == results

drained(results) == << >>

results_iterator(scan_id, pop_res) ==
  /\ id_exists(scan_id)
  /\ scans_table' =
       IF pop_res
       THEN [scans_table EXCEPT ![scan_id].results = drained(@)]
       ELSE scans_table
  /\ last' = Returned("results_iterator", scan_id, << pop_res >>, "iterator",
                      scans_table[scan_id].results)
  /\ UNCHANGED data_manager

set_host_finished(scan_id, target, host) ==
  /\ id_exists(scan_id)
  /\ target \in DOMAIN scans_table[scan_id].finished_hosts
  /\ scans_table' =
       [scans_table EXCEPT ![scan_id].finished_hosts[target] = @ \o host]
  /\ last' = Called("set_host_finished", scan_id, "None", "")
  /\ UNCHANGED data_manager

\* if progress > 0 and progress <= 100, with the lower bound included
in_range_from_zero(progress) == progress >= 0 /\ progress <= 100

\* if progress > 0 and progress <= 100, without the upper bound
in_range_unbounded(progress) == progress > 0

in_range(progress) == progress > 0 /\ progress <= 100

\* if progress == 100, never taken
at_hundred_never(progress) == FALSE

at_hundred(progress) == progress = 100

set_progress(scan_id, progress, now) ==
  /\ id_exists(scan_id)
  /\ scans_table' =
       [scans_table EXCEPT
          ![scan_id].progress = IF in_range(progress) THEN progress ELSE @,
          ![scan_id].end_time = IF at_hundred(progress) THEN now ELSE @]
  /\ last' = Called("set_progress", scan_id, "None",
                    IF in_range(progress) THEN "applied" ELSE "ignored")
  /\ UNCHANGED data_manager

\* targets[target][host] = progress on the dict of one target
DictSet(d, key, value) == {item \in d : item[1] # key} \cup {<<key, value>>}

set_target_progress(scan_id, target, host, progress) ==
  /\ id_exists(scan_id)
  /\ IF in_range(progress)
     THEN IF target \in DOMAIN scans_table[scan_id].target_progress
          THEN /\ scans_table' =
                    [scans_table EXCEPT
                       ![scan_id].target_progress[target] = DictSet(@, host, progress)]
               /\ last' = Called("set_target_progress", scan_id, "None", "applied")
          ELSE /\ scans_table' = scans_table
               /\ last' = Called("set_target_progress", scan_id, "KeyError", "applied")
     ELSE /\ scans_table' = scans_table
          /\ last' = Called("set_target_progress", scan_id, "None", "ignored")
  /\ UNCHANGED data_manager

Next ==
  \/ \E scan_id \in ScanIdInputs, targets \in TargetsInputs,
        options \in OptionsInputs, vts \in VtsInputs, now \in Times :
       \E uuid \in uuid4(scan_id) :
         create_scan(scan_id, targets, options, vts, now, uuid) /\ UNCHANGED procs
  \/ \E scan_id \in ScanIds, status \in ScanStatus :
       set_status(scan_id, status) /\ UNCHANGED procs
  \/ \E scan_id \in ScanIds : delete_scan(scan_id) /\ UNCHANGED procs
  \/ \E scan_id \in ScanIds, r \in ResultInputs :
       add_result(scan_id, r) /\ UNCHANGED procs
  \/ \E scan_id \in DOMAIN scans_table, h \in Hosts :
       \E target \in DOMAIN scans_table[scan_id].finished_hosts :
         /\ StoredFinished < MaxFinished
         /\ set_host_finished(scan_id, target, << h >>)
         /\ UNCHANGED procs

Spec == Init /\ [][Next]_vars

(***************************************************************************)
(* The registry driven by callers that request only the transitions of the *)
(* scan state machine through set_status.                                  *)
(***************************************************************************)
LegalSetStatus == { <<INIT, RUNNING>>, <<RUNNING, FINISHED>>, <<RUNNING, STOPPED>> }

NextLegal ==
  \/ \E scan_id \in ScanIdInputs, targets \in TargetsInputs,
        options \in OptionsInputs, vts \in VtsInputs, now \in Times :
       \E uuid \in uuid4(scan_id) :
         create_scan(scan_id, targets, options, vts, now, uuid) /\ UNCHANGED procs
  \/ \E scan_id \in DOMAIN scans_table, status \in ScanStatus :
       /\ <<get_status(scan_id), status>> \in LegalSetStatus
       /\ set_status(scan_id, status)
       /\ UNCHANGED procs
  \/ \E scan_id \in ScanIds : delete_scan(scan_id) /\ UNCHANGED procs
  \/ \E scan_id \in ScanIds, r \in ResultInputs :
       add_result(scan_id, r) /\ UNCHANGED procs
  \/ \E scan_id \in DOMAIN scans_table, h \in Hosts :
       \E target \in DOMAIN scans_table[scan_id].finished_hosts :
         /\ StoredFinished < MaxFinished
         /\ set_host_finished(scan_id, target, << h >>)
         /\ UNCHANGED procs

SpecLegal == Init /\ [][NextLegal]_vars

(***************************************************************************)
(* One scan and the progress its worker reports.                           *)
(***************************************************************************)
ProgressScanIds == {"id1"}

TargetSpecInputs == {TargetCidr, TargetLong}

NextProgress ==
  \/ \E scan_id \in ProgressScanIds, targets \in TargetsInputs,
        options \in OptionsInputs, vts \in VtsInputs, now \in Times :
       create_scan(scan_id, targets, options, vts, now, scan_id) /\ UNCHANGED procs
  \/ \E scan_id \in ProgressScanIds, status \in ScanStatus :
       set_status(scan_id, status) /\ UNCHANGED procs
  \/ \E scan_id \in ProgressScanIds, progress \in ProgressInputs, now \in StampTimes :
       set_progress(scan_id, progress, now) /\ UNCHANGED procs
  \/ \E scan_id \in ProgressScanIds, target \in TargetSpecInputs,
        host \in Hosts \cup {Host3}, progress \in ProgressInputs :
       set_target_progress(scan_id, target, host, progress) /\ UNCHANGED procs
  \/ \E scan_id \in ProgressScanIds : delete_scan(scan_id) /\ UNCHANGED procs

SpecProgress == Init /\ [][NextProgress]_vars

(***************************************************************************)
(* One scan of two targets, the progress reported per host and the queries *)
(* of a target's progress.                                                 *)
(***************************************************************************)
TargetScanIds == {"id1"}

TargetsOfScan == << Triple(Target4), Triple(TargetBad) >>

\* The hosts progress is reported for, per target
ReportedHosts(target) ==
  IF target = Target4 THEN {Host1, Host2, Host3, Host4} ELSE {Host1}

ReportedProgress == {50, 100}

TargetQueryInputs == {Target4, TargetBad, TargetCidr}

query_get_target_progress(scan_id, target, py) ==
  /\ id_exists(scan_id)
  /\ LET r == get_target_progress(scans_table[scan_id], target, py)
     IN  last' = Returned("get_target_progress", scan_id, << target >>,
                          IF r.exc = "" THEN "number" ELSE r.exc, r.val)
  /\ UNCHANGED <<scans_table, data_manager>>

NextTargets ==
  \/ \E scan_id \in TargetScanIds, vts \in VtsInputs, now \in Times :
       /\ create_scan(scan_id, TargetsOfScan, OptionsNone, vts, now, scan_id)
       /\ UNCHANGED procs
  \/ \E scan_id \in TargetScanIds, target \in {Target4, TargetBad},
        progress \in ReportedProgress :
       \E host \in ReportedHosts(target) :
         set_target_progress(scan_id, target, host, progress) /\ UNCHANGED procs
  \/ \E scan_id \in TargetScanIds, target \in TargetQueryInputs,
        py \in PythonVersions :
       query_get_target_progress(scan_id, target, py) /\ UNCHANGED procs

SpecTargets == Init /\ [][NextTargets]_vars

(***************************************************************************)
(* One scan, of one target or of two that expand to the same hosts, the    *)
(* hosts reported finished and the query of the unfinished ones.           *)
(***************************************************************************)
HostScanIds == {"id1"}

OverlappingTargets == << Triple(TargetCidr), Triple(TargetLong) >>

HostTargetsInputs == TargetsInputs \cup {OverlappingTargets}

query_get_hosts_unfinished(scan_id) ==
  /\ id_exists(scan_id)
  /\ LET r == get_hosts_unfinished(scans_table[scan_id])
     IN  last' = Returned("get_hosts_unfinished", scan_id, << >>,
                          IF r.exc = "" THEN "list" ELSE r.exc, r.val)
  /\ UNCHANGED <<scans_table, data_manager>>

NextHosts ==
  \/ \E scan_id \in HostScanIds, targets \in HostTargetsInputs,
        options \in OptionsInputs, vts \in VtsInputs, now \in Times :
       /\ create_scan(scan_id, targets, options, vts, now, scan_id)
       /\ UNCHANGED procs
  \/ \E scan_id \in HostScanIds, status \in ScanStatus :
       set_status(scan_id, status) /\ UNCHANGED procs
  \/ \E scan_id \in DOMAIN scans_table, h \in Hosts :
       \E target \in DOMAIN scans_table[scan_id].finished_hosts :
         /\ StoredFinished < MaxFinishedOfScan
         /\ set_host_finished(scan_id, target, << h >>)
         /\ UNCHANGED procs
  \/ \E scan_id \in HostScanIds :
       query_get_hosts_unfinished(scan_id) /\ UNCHANGED procs

SpecHosts == Init /\ [][NextHosts]_vars

(***************************************************************************)
(* One scan, the results added to it and the calls that fetch them, one    *)
(* call after the other.                                                   *)
(***************************************************************************)
ResultScanIds == {"id1"}

\* A new record starts a new sequence of results
res_create_scan(scan_id, targets, options, vts, now) ==
  /\ create_scan(scan_id, targets, options, vts, now, scan_id)
  /\ procs' = [procs EXCEPT !.sent = << >>, !.fetched = << >>]

res_add_result(scan_id, r) ==
  /\ Len(procs.sent) < MaxSent
  /\ add_result(scan_id, r)
  /\ procs' = [procs EXCEPT
                 !.sent = IF last'.ret = "None" THEN Append(@, make_result(r))
                          ELSE @]

res_results_iterator(scan_id, pop_res) ==
  /\ results_iterator(scan_id, pop_res)
  /\ procs' = [procs EXCEPT
                 !.fetched = IF pop_res THEN @ \o last'.val ELSE @]

NextResults ==
  \/ \E scan_id \in ResultScanIds, targets \in TargetsInputs,
        vts \in VtsInputs, now \in Times :
       res_create_scan(scan_id, targets, OptionsNone, vts, now)
  \/ \E scan_id \in ResultScanIds, r \in ResultFieldInputs :
       res_add_result(scan_id, r)
  \/ \E scan_id \in ResultScanIds, pop_res \in BOOLEAN :
       res_results_iterator(scan_id, pop_res)

SpecResults == Init /\ [][NextResults]_vars

(***************************************************************************)
(* target_to_ipv4_cidr applied to one "address/block" string.              *)
(***************************************************************************)
\* 10.0.0.0 .. 10.0.0.3, 10.0.0.255, 10.0.1.0, 10.1.2.3, 127.255.255.255
CidrAddrs ==
  {Net10, Host1, Host2, Host3, Net10 + 255, Net10 + 256, Net10 + 66051, 2147483647}

CidrBlocks == {-1, 0} \cup ((32 - MaxHostBits)..33)

InitCidr ==
  /\ scans_table = << >>
  /\ data_manager = FALSE
  /\ procs = [ workers |-> [w \in Workers |-> IdleWorker],
                coord |-> IdleCoord,
                added |-> {},
                sent |-> << >>,
                fetched |-> << >> ]
  /\ \E addr \in CidrAddrs, block \in CidrBlocks :
       last = Returned("input", EmptyId, << addr, block >>, "None", << >>)

call_target_to_ipv4_cidr ==
  /\ last.op = "input"
  /\ LET r == target_to_ipv4_cidr(last.args[1], last.args[2])
     IN  last' = Returned("target_to_ipv4_cidr", EmptyId, last.args,
                          IF r.ok THEN "list" ELSE "None", r.hosts)
  /\ UNCHANGED <<scans_table, data_manager, procs>>

NextCidr == call_target_to_ipv4_cidr

SpecCidr == InitCidr /\ [][NextCidr]_vars

(***************************************************************************)
(* target_str_to_list applied to one comma-separated target string.        *)
(***************************************************************************)
\* "10.0.0.1", "10.0.0.0/30", "10.0.0.2-10.0.0.4", "10.0.0.4-10.0.0.2",
\* "scanme", "10.0.0.0/31" and "a b"
TokenInputs ==
  { [kind |-> "ipv4", addr |-> Host1, arg |-> 0],
    [kind |-> "ipv4_cidr", addr |-> Net10, arg |-> 30],
    [kind |-> "ipv4_long", addr |-> Host2, arg |-> Host4],
    [kind |-> "ipv4_long", addr |-> Host4, arg |-> Host2],
    [kind |-> "hostname", addr |-> -1, arg |-> 0],
    [kind |-> "ipv4_cidr", addr |-> Net10, arg |-> 31],
    [kind |-> "invalid", addr |-> 0, arg |-> 0] }

\* Tokens of the longest target string resolved
MaxTokens == 3

TargetStrInputs == UNION { [1..n -> TokenInputs] : n \in 1..MaxTokens }

InitResolver ==
  /\ scans_table = << >>
  /\ data_manager = FALSE
  /\ procs = [ workers |-> [w \in Workers |-> IdleWorker],
                coord |-> IdleCoord,
                added |-> {},
                sent |-> << >>,
                fetched |-> << >> ]
  /\ \E target_str \in TargetStrInputs :
       last = Returned("input", EmptyId, << target_str >>, "None", << >>)

call_target_str_to_list ==
  /\ last.op = "input"
  /\ LET r == target_str_to_list(last.args[1])
     IN  last' = Returned("target_str_to_list", EmptyId, last.args,
                          IF r.ok THEN "list" ELSE "None", r.hosts)
  /\ UNCHANGED <<scans_table, data_manager, procs>>

NextResolver == call_target_str_to_list

SpecResolver == InitResolver /\ [][NextResolver]_vars

(***************************************************************************)
(* The port functions on their own: a port string is drawn, ports_as_list  *)
(* or port_str_arrange is applied to it, and port_list_compress is applied *)
(* to the TCP list that ports_as_list returned.                            *)
(* A drawn string is either written out from a description (the items of   *)
(* its TCP and UDP lists, the order of the segments and what separates     *)
(* them) or any short string over a few characters.                        *)
(***************************************************************************)
Single(p) == [lo |-> p, hi |-> p, range |-> FALSE]

Range(a, b) == [lo |-> a, hi |-> b, range |-> TRUE]

PortItemInputs ==
  { Single(1), Single(3), Single(22), Range(1, 3), Range(2, 4), Range(4, 2) }

MaxPortItems == 2

PortListInputs == UNION { [1..n -> PortItemInputs] : n \in 1..MaxPortItems }

UdpListInputs == [1..1 -> PortItemInputs]

Separators == { << >>, << "," >>, << " " >> }

PortSpecInputs ==
  { [form |-> f, sep |-> << >>, tcp |-> l, udp |-> << >>] :
      f \in {"bare", "T"}, l \in PortListInputs }
  \cup { [form |-> "U", sep |-> << >>, tcp |-> << >>, udp |-> l] :
           l \in PortListInputs }
  \cup { [form |-> f, sep |-> sep, tcp |-> t, udp |-> u] :
           f \in {"TU", "UT"}, sep \in Separators,
           t \in PortListInputs, u \in UdpListInputs }

RenderItem(item) ==
  IF item.range THEN str(item.lo) \o << "-" >> \o str(item.hi) ELSE str(item.lo)

RenderList(items) == join(",", [i \in DOMAIN items |-> RenderItem(items[i])])

Render(d) ==
  LET t == RenderList(d.tcp)
      u == RenderList(d.udp)
  IN  CASE d.form = "bare" -> t
        [] d.form = "T" -> << "T", ":" >> \o t
        [] d.form = "U" -> << "U", ":" >> \o u
        [] d.form = "TU" -> << "T", ":" >> \o t \o d.sep \o << "U", ":" >> \o u
        [] d.form = "UT" -> << "U", ":" >> \o u \o d.sep \o << "T", ":" >> \o t

ShortChars == { "T", "U", ":", ",", "1", "x" }

MaxShortLen == 4

ShortStrInputs == UNION { [1..n -> ShortChars] : n \in 1..MaxShortLen }

NoDescription == [form |-> "none", sep |-> << >>, tcp |-> << >>, udp |-> << >>]

InitPorts ==
  /\ scans_table = << >>
  /\ data_manager = FALSE
  /\ procs = [ workers |-> [w \in Workers |-> IdleWorker],
                coord |-> IdleCoord,
                added |-> {},
                sent |-> << >>,
                fetched |-> << >> ]
  /\ \/ \E d \in PortSpecInputs :
          last = Returned("input", EmptyId, << Render(d), d >>, "None", << >>)
     \/ \E port_str \in ShortStrInputs :
          last = Returned("input", EmptyId, << port_str, NoDescription >>,
                          "None", << >>)

call_ports_as_list ==
  /\ last.op = "input"
  /\ LET r == ports_as_list(last.args[1])
     IN  last' = Returned("ports_as_list", EmptyId, last.args, r.ret,
                          << r.tcp, r.udp >>)
  /\ UNCHANGED <<scans_table, data_manager, procs>>

call_port_str_arrange ==
  /\ last.op = "input"
  /\ last' = Returned("port_str_arrange", EmptyId, last.args, "str",
                       port_str_arrange(last.args[1]))
  /\ UNCHANGED <<scans_table, data_manager, procs>>

call_port_list_compress ==
  /\ last.op = "ports_as_list"
  /\ last.ret = "lists"
  /\ last' = Returned("port_list_compress", EmptyId, last.args, "str",
                       port_list_compress(last.val[1]))
  /\ UNCHANGED <<scans_table, data_manager, procs>>

NextPorts ==
  \/ call_ports_as_list
  \/ call_port_str_arrange
  \/ call_port_list_compress

SpecPorts == InitPorts /\ [][NextPorts]_vars

(***************************************************************************)
(* ResultType on its own: a value is drawn, get_str or get_type is applied *)
(* to it, and the other of the two is applied to what was returned. A      *)
(* Python value is an integer or a string; values of different types are   *)
(* never equal.                                                            *)
(***************************************************************************)
ALARM == 0

LOG == 1

ERROR == 2

HOST_DETAIL == 3

IntValue(n) == [t |-> "int", n |-> n, s |-> ""]

StrValue(s) == [t |-> "str", n |-> 0, s |-> s]

\* a == b
PyEq(a, b) == a = b

\* The label of every type but ALARM
get_str_log_for_alarm(result_type) ==
  IF PyEq(result_type, IntValue(ALARM)) THEN Ok(StrValue("Log Message"))
  ELSE IF PyEq(result_type, IntValue(LOG)) THEN Ok(StrValue("Log Message"))
  ELSE IF PyEq(result_type, IntValue(ERROR)) THEN Ok(StrValue("Error Message"))
  ELSE IF PyEq(result_type, IntValue(HOST_DETAIL)) THEN Ok(StrValue("Host Detail"))
  ELSE Raise("AssertionError")

get_str(result_type) ==
  IF PyEq(result_type, IntValue(ALARM)) THEN Ok(StrValue("Alarm"))
  ELSE IF PyEq(result_type, IntValue(LOG)) THEN Ok(StrValue("Log Message"))
  ELSE IF PyEq(result_type, IntValue(ERROR)) THEN Ok(StrValue("Error Message"))
  ELSE IF PyEq(result_type, IntValue(HOST_DETAIL)) THEN Ok(StrValue("Host Detail"))
  ELSE Raise("AssertionError")

get_type(result_name) ==
  IF PyEq(result_name, StrValue("Alarm")) THEN Ok(IntValue(ALARM))
  ELSE IF PyEq(result_name, StrValue("Log Message")) THEN Ok(IntValue(LOG))
  ELSE IF PyEq(result_name, StrValue("Error Message")) THEN Ok(IntValue(ERROR))
  ELSE IF PyEq(result_name, StrValue("Host Detail")) THEN Ok(IntValue(HOST_DETAIL))
  ELSE Raise("AssertionError")

MaxKind == 12

KindInputs == { IntValue(n) : n \in (0 - MaxKind)..MaxKind }

LabelInputs ==
  { StrValue(s) : s \in { "Alarm", "Log Message", "Error Message", "Host Detail",
                          "", "alarm", "ALARM", "Log", "Error", "Host Details",
                          "Alarm ", "0" } }

InitResultType ==
  /\ scans_table = << >>
  /\ data_manager = FALSE
  /\ procs = [ workers |-> [w \in Workers |-> IdleWorker],
                coord |-> IdleCoord,
                added |-> {},
                sent |-> << >>,
                fetched |-> << >> ]
  /\ \E value \in KindInputs \cup LabelInputs :
       last = Returned("input", EmptyId, << value >>, "None", << >>)

\* get_str of the drawn value, or of the type get_type returned for it
call_get_str ==
  /\ \/ last.op = "input"
     \/ last.op = "get_type" /\ last.ret = "value"
  /\ LET r == get_str(IF last.op = "input" THEN last.args[1] ELSE last.val)
     IN  last' = Returned(IF last.op = "input" THEN "get_str" ELSE "get_str_of_type",
                          EmptyId, last.args,
                          IF r.exc = "" THEN "value" ELSE r.exc, r.val)
  /\ UNCHANGED <<scans_table, data_manager, procs>>

\* get_type of the drawn value, or of the label get_str returned for it
call_get_type ==
  /\ \/ last.op = "input"
     \/ last.op = "get_str" /\ last.ret = "value"
  /\ LET r == get_type(IF last.op = "input" THEN last.args[1] ELSE last.val)
     IN  last' = Returned(IF last.op = "input" THEN "get_type" ELSE "get_type_of_str",
                          EmptyId, last.args,
                          IF r.exc = "" THEN "value" ELSE r.exc, r.val)
  /\ UNCHANGED <<scans_table, data_manager, procs>>

NextResultType == call_get_str \/ call_get_type

SpecResultType == InitResultType /\ [][NextResultType]_vars

(***************************************************************************)
(* The coordinator and two workers calling into the registry at once. A    *)
(* step is one access to the shared scan_info (a read or a write through   *)
(* its proxy) or to the coordinator's own scans_table.                     *)
(***************************************************************************)
ConcScanIds == {"id1"}

AllIdle ==
  /\ procs.coord.pc = "idle"
  /\ \A w \in Workers : procs.workers[w].pc = "idle"

\* create_scan runs in the coordinator before the scan's worker is started
conc_create_scan(scan_id, targets, options, vts, now) ==
  /\ AllIdle
  /\ create_scan(scan_id, targets, options, vts, now, scan_id)
  /\ procs' = [procs EXCEPT !.added = {}]

conc_set_status(scan_id, status) ==
  /\ set_status(scan_id, status)
  /\ UNCHANGED procs

\* results = self.scans_table[scan_id]['results']; results.append(result)
add_result_read(w, scan_id, r) ==
  /\ procs.workers[w].pc = "idle"
  /\ id_exists(scan_id)
  /\ Len(scans_table[scan_id].results) < MaxResults
  /\ r.name # "" \/ r.value # ""
  /\ procs' = [procs EXCEPT
                 !.workers[w] =
                   [pc |-> "add_result_write", scan_id |-> scan_id,
                    results |-> Append(scans_table[scan_id].results, make_result(r))]]
  /\ UNCHANGED <<scans_table, data_manager, last>>

\* self.scans_table[scan_id]['results'] = results; a record the coordinator
\* has removed meanwhile is no longer in its table
add_result_write(w) ==
  LET me == procs.workers[w]
  IN  /\ me.pc = "add_result_write"
      /\ scans_table' =
           IF id_exists(me.scan_id)
           THEN [scans_table EXCEPT ![me.scan_id].results = me.results]
           ELSE scans_table
      /\ procs' = [procs EXCEPT
                     !.workers[w] = IdleWorker,
                     !.added = @ \cup {me.results[Len(me.results)]}]
      /\ last' = Called("add_result", me.scan_id, "None", "")
      /\ UNCHANGED data_manager

\* if self.get_status(scan_id) == ScanStatus.RUNNING: return False
delete_scan_check(scan_id) ==
  /\ procs.coord.pc = "idle"
  /\ id_exists(scan_id)
  /\ IF delete_refused(scan_id)
     THEN /\ last' = Called("delete_scan", scan_id, "False", "")
          /\ UNCHANGED procs
     ELSE /\ procs' = [procs EXCEPT !.coord = [pc |-> "delete_scan_pop",
                                                scan_id |-> scan_id]]
          /\ UNCHANGED last
  /\ UNCHANGED <<scans_table, data_manager>>

\* self.scans_table.pop(scan_id) and what follows it
delete_scan_pop ==
  LET scan_id == procs.coord.scan_id
  IN  /\ procs.coord.pc = "delete_scan_pop"
      /\ scans_table' = Remove(scans_table, scan_id)
      /\ data_manager' =
           IF len_is_zero(Remove(scans_table, scan_id)) THEN FALSE
           ELSE data_manager
      /\ last' = Called("delete_scan", scan_id, "True", "")
      /\ procs' = [procs EXCEPT !.coord = IdleCoord]

NextConc ==
  \/ \E scan_id \in ConcScanIds, targets \in TargetsInputs,
        options \in OptionsInputs, vts \in VtsInputs, now \in Times :
       conc_create_scan(scan_id, targets, options, vts, now)
  \/ \E scan_id \in ConcScanIds, status \in ScanStatus :
       conc_set_status(scan_id, status)
  \/ \E w \in Workers, scan_id \in ConcScanIds, r \in ResultInputs :
       add_result_read(w, scan_id, r)
  \/ \E w \in Workers : add_result_write(w)
  \/ \E scan_id \in ConcScanIds : delete_scan_check(scan_id)
  \/ delete_scan_pop

SpecConc == Init /\ [][NextConc]_vars

(***************************************************************************)
(* One worker adding results to a scan while the coordinator fetches them  *)
(* with pop_res true. A step is one access to the shared scan_info.        *)
(* procs.added holds the results whose add_result has returned and         *)
(* procs.fetched the results the draining calls have returned so far; no   *)
(* result is added twice, so each can be told from the others.            *)
(***************************************************************************)
DrainWorkers == {"w1"}

NotYetAdded(r) ==
  /\ make_result(r) \notin procs.added
  /\ \A w \in Workers :
       procs.workers[w].pc = "add_result_write" =>
         procs.workers[w].results[Len(procs.workers[w].results)] # make_result(r)

drain_create_scan(scan_id, targets, options, vts, now) ==
  /\ ~id_exists(scan_id)
  /\ conc_create_scan(scan_id, targets, options, vts, now)

drain_add_result_read(w, scan_id, r) ==
  /\ NotYetAdded(r)
  /\ Cardinality(procs.added) < MaxSent
  /\ add_result_read(w, scan_id, r)

\* result_aux = self.scans_table[scan_id]['results']
results_iterator_read(scan_id) ==
  /\ procs.coord.pc = "idle"
  /\ id_exists(scan_id)
  /\ procs' = [procs EXCEPT
                 !.coord = [pc |-> "results_iterator_write", scan_id |-> scan_id,
                            result_aux |-> scans_table[scan_id].results]]
  /\ UNCHANGED <<scans_table, data_manager, last>>

\* self.scans_table[scan_id]['results'] = list(); return iter(result_aux)
results_iterator_write ==
  LET me == procs.coord
  IN  /\ me.pc = "results_iterator_write"
      /\ scans_table' = [scans_table EXCEPT ![me.scan_id].results = drained(@)]
      /\ procs' = [procs EXCEPT !.coord = IdleCoord,
                                !.fetched = @ \o me.result_aux]
      /\ last' = Returned("results_iterator", me.scan_id, << TRUE >>, "iterator",
                          me.result_aux)
      /\ UNCHANGED data_manager

NextDrain ==
  \/ \E scan_id \in ConcScanIds, targets \in TargetsInputs,
        vts \in VtsInputs, now \in Times :
       drain_create_scan(scan_id, targets, OptionsNone, vts, now)
  \/ \E w \in DrainWorkers, scan_id \in ConcScanIds, r \in ResultFieldInputs :
       drain_add_result_read(w, scan_id, r)
  \/ \E w \in DrainWorkers : add_result_write(w)
  \/ \E scan_id \in ConcScanIds : results_iterator_read(scan_id)
  \/ results_iterator_write

SpecDrain == Init /\ [][NextDrain]_vars

(***************************************************************************)
(* Two workers reporting the progress and the end of two hosts of one scan *)
(* at once. A step is one access to the shared scan_info: the read of the  *)
(* whole target_progress (or finished_hosts) dict, or its write-back.      *)
(* procs.added holds <<field, target, host>> for every call that has       *)
(* returned after storing that host in that field.                         *)
(***************************************************************************)
WriterProgressInputs == {0, 50}

NotYetWritten(field, host) == \A e \in procs.added : ~(e[1] = field /\ e[3] = host)

NotInFlight(pc, host) ==
  \A w \in Workers : procs.workers[w].pc = pc => procs.workers[w].host # host

writers_create_scan(scan_id, targets, options, vts, now) ==
  /\ ~id_exists(scan_id)
  /\ conc_create_scan(scan_id, targets, options, vts, now)

\* targets = self.scans_table[scan_id]['target_progress'];
\* targets[target][host] = progress
set_target_progress_read(w, scan_id, target, host, progress) ==
  /\ procs.workers[w].pc = "idle"
  /\ id_exists(scan_id)
  /\ target \in DOMAIN scans_table[scan_id].target_progress
  /\ NotYetWritten("target_progress", host)
  /\ NotInFlight("set_target_progress_write", host)
  /\ IF in_range(progress)
     THEN /\ procs' = [procs EXCEPT
                         !.workers[w] =
                           [pc |-> "set_target_progress_write",
                            scan_id |-> scan_id, target |-> target, host |-> host,
                            targets |->
                              [scans_table[scan_id].target_progress EXCEPT
                                 ![target] = DictSet(@, host, progress)]]]
          /\ UNCHANGED last
     ELSE /\ last' = Called("set_target_progress", scan_id, "None", "ignored")
          /\ UNCHANGED procs
  /\ UNCHANGED <<scans_table, data_manager>>

\* self.scans_table[scan_id]['target_progress'] = targets
set_target_progress_write(w) ==
  LET me == procs.workers[w]
  IN  /\ me.pc = "set_target_progress_write"
      /\ scans_table' = [scans_table EXCEPT ![me.scan_id].target_progress = me.targets]
      /\ procs' = [procs EXCEPT
                     !.workers[w] = IdleWorker,
                     !.added = @ \cup {<< "target_progress", me.target, me.host >>}]
      /\ last' = Called("set_target_progress", me.scan_id, "None", "applied")
      /\ UNCHANGED data_manager

\* finished_hosts = self.scans_table[scan_id]['finished_hosts'];
\* finished_hosts[target].extend(host)
set_host_finished_read(w, scan_id, target, host) ==
  /\ procs.workers[w].pc = "idle"
  /\ id_exists(scan_id)
  /\ target \in DOMAIN scans_table[scan_id].finished_hosts
  /\ NotYetWritten("finished_hosts", host)
  /\ NotInFlight("set_host_finished_write", host)
  /\ procs' = [procs EXCEPT
                 !.workers[w] =
                   [pc |-> "set_host_finished_write",
                    scan_id |-> scan_id, target |-> target, host |-> host,
                    finished_hosts |->
                      [scans_table[scan_id].finished_hosts EXCEPT
                         ![target] = @ \o << host >>]]]
  /\ UNCHANGED <<scans_table, data_manager, last>>

\* self.scans_table[scan_id]['finished_hosts'] = finished_hosts
set_host_finished_write(w) ==
  LET me == procs.workers[w]
  IN  /\ me.pc = "set_host_finished_write"
      /\ scans_table' =
           [scans_table EXCEPT ![me.scan_id].finished_hosts = me.finished_hosts]
      /\ procs' = [procs EXCEPT
                     !.workers[w] = IdleWorker,
                     !.added = @ \cup {<< "finished_hosts", me.target, me.host >>}]
      /\ last' = Called("set_host_finished", me.scan_id, "None", "")
      /\ UNCHANGED data_manager

NextWriters ==
  \/ \E scan_id \in ConcScanIds, targets \in TargetsInputs,
        vts \in VtsInputs, now \in Times :
       writers_create_scan(scan_id, targets, OptionsNone, vts, now)
  \/ \E w \in Workers, scan_id \in ConcScanIds \cap DOMAIN scans_table,
        h \in Hosts, progress \in WriterProgressInputs :
       \E target \in DOMAIN scans_table[scan_id].target_progress :
         set_target_progress_read(w, scan_id, target, h, progress)
  \/ \E w \in Workers : set_target_progress_write(w)
  \/ \E w \in Workers, scan_id \in ConcScanIds \cap DOMAIN scans_table,
        h \in Hosts :
       \E target \in DOMAIN scans_table[scan_id].finished_hosts :
         set_host_finished_read(w, scan_id, target, h)
  \/ \E w \in Workers : set_host_finished_write(w)

SpecWriters == Init /\ [][NextWriters]_vars

(***************************************************************************)
(* exec_scan of the ovaldi wrapper, run by the worker of one scan. A step  *)
(* is one call to the target host or the local file system, which          *)
(* succeeds, fails with an exception the code catches, or fails with one   *)
(* it does not, or one call into the registry. The worker's calls holds    *)
(* the calls exec_scan has made on the scan, in order, and failed the      *)
(* step whose failure the code caught first.                               *)
(***************************************************************************)
OvaldiWorker == "w1"

\* prepare: lines 262-270; connect: 273-283; open_sftp: 286-291;
\* check_ovaldi: 294-298; mkdir: 301-308; put: 309-310; run: 313-322;
\* results, syschar, log: 325-350; cleanup: 352-359
ExecSteps ==
  << "prepare", "connect", "open_sftp", "check_ovaldi", "mkdir", "put", "run",
     "results", "syschar", "log", "cleanup" >>

\* The steps whose failure ends exec_scan through finish_scan_with_err
HandledSteps == { "connect", "open_sftp", "check_ovaldi", "mkdir" }

\* The steps that fetch a file and parse it into results
FetchSteps == { "results", "syschar", "log" }

StepAfter(step) ==
  LET i == CHOOSE k \in DOMAIN ExecSteps : ExecSteps[k] = step
  IN  IF i = Len(ExecSteps) THEN "finish_scan" ELSE ExecSteps[i + 1]

\* str(err) of a failed connect may be empty; the other messages are not
ErrTexts(step) == IF step = "connect" THEN { "", "err" } ELSE { "err" }

\* Results one parse_* call adds
MaxParsed == 1

StartedWorker(scan_id) ==
  [pc |-> "prepare", scan_id |-> scan_id, results |-> << >>,
   failed |-> "", err |-> "", calls |-> << >>, stage |-> "", parsed |-> 0]

Me == procs.workers[OvaldiWorker]

SetMe(me) == procs' = [procs EXCEPT !.workers[OvaldiWorker] = me]

ovaldi_create_scan(scan_id, targets, options, vts, now) ==
  /\ ~id_exists(scan_id)
  /\ conc_create_scan(scan_id, targets, options, vts, now)

exec_scan_start(scan_id) ==
  /\ Me.pc = "idle"
  /\ id_exists(scan_id)
  /\ SetMe(StartedWorker(scan_id))
  /\ last' = Called("exec_scan", scan_id, "started", "")
  /\ UNCHANGED <<scans_table, data_manager>>

\* The call of the step returns; a fetched file is then parsed
exec_step_ok ==
  /\ Me.pc \in { ExecSteps[k] : k \in DOMAIN ExecSteps }
  /\ SetMe(IF Me.pc \in FetchSteps
           THEN [Me EXCEPT !.pc = "parse", !.stage = Me.pc, !.parsed = 0]
           ELSE [Me EXCEPT !.pc = StepAfter(Me.pc)])
  /\ UNCHANGED <<scans_table, data_manager, last>>

\* An exception no except clause of exec_scan catches
exec_step_raise ==
  /\ Me.pc \in { ExecSteps[k] : k \in DOMAIN ExecSteps }
               \cup { "parse", "finish_scan_with_err" }
  /\ SetMe([Me EXCEPT !.pc = "raised"])
  /\ last' = Called("exec_scan", Me.scan_id, "raised", "")
  /\ UNCHANGED <<scans_table, data_manager>>

\* return self.finish_scan_with_err(scan_id, local_dir, err)
exec_step_failed(err) ==
  /\ Me.pc \in HandledSteps
  /\ err \in ErrTexts(Me.pc)
  /\ SetMe([Me EXCEPT !.pc = "finish_scan_with_err", !.failed = Me.pc, !.err = err])
  /\ UNCHANGED <<scans_table, data_manager, last>>

\* self.scan_collection.add_result(...) as add_scan_error, add_scan_log and
\* add_scan_alarm call it
ovaldi_add_result(scan_id, type, name, value) ==
  scans_table' =
    [scans_table EXCEPT
       ![scan_id].results =
         Append(@, make_result([type |-> type, host |-> Host1, name |-> name,
                                value |-> value]))]

\* except IOError: self.add_scan_error(scan_id, value=msg)
exec_fetch_failed ==
  /\ Me.pc \in FetchSteps
  /\ ovaldi_add_result(Me.scan_id, ERROR, "", "msg")
  /\ SetMe([Me EXCEPT !.pc = StepAfter(Me.pc),
                      !.calls = Append(@, "add_scan_error")])
  /\ last' = Called("add_scan_error", Me.scan_id, "None", "")
  /\ UNCHANGED data_manager

\* self.add_scan_log(...) or self.add_scan_alarm(...) in a parse_* method
exec_parse_add(type) ==
  /\ Me.pc = "parse"
  /\ Me.parsed < MaxParsed
  /\ ovaldi_add_result(Me.scan_id, type, "n", "")
  /\ SetMe([Me EXCEPT !.parsed = @ + 1,
                      !.calls = Append(@, IF type = LOG THEN "add_scan_log"
                                          ELSE "add_scan_alarm")])
  /\ last' = Called(IF type = LOG THEN "add_scan_log" ELSE "add_scan_alarm",
                    Me.scan_id, "None", "")
  /\ UNCHANGED data_manager

exec_parse_done ==
  /\ Me.pc = "parse"
  /\ SetMe([Me EXCEPT !.pc = StepAfter(Me.stage)])
  /\ UNCHANGED <<scans_table, data_manager, last>>

\* finish_scan_with_err returns without calling finish_scan
after_add_scan_error_returns == "returned"

\* self.finish_scan(scan_id) follows self.add_scan_error(scan_id, value=err)
after_add_scan_error == "finish_scan"

\* shutil.rmtree, the debug line and self.add_scan_error(scan_id, value=err),
\* which add_result refuses with an assertion when err is empty
finish_scan_with_err ==
  /\ Me.pc = "finish_scan_with_err"
  /\ IF Me.err = ""
     THEN /\ SetMe([Me EXCEPT !.pc = "raised"])
          /\ last' = Called("add_scan_error", Me.scan_id, "AssertionError", "")
          /\ UNCHANGED scans_table
     ELSE /\ ovaldi_add_result(Me.scan_id, ERROR, "", Me.err)
          /\ SetMe([Me EXCEPT !.pc = after_add_scan_error,
                              !.calls = Append(@, "add_scan_error")])
          /\ last' = Called("add_scan_error", Me.scan_id, "None", "")
  /\ UNCHANGED data_manager

\* The terminal update of the scan: progress 100, end_time, status FINISHED
finish_scan(now) ==
  /\ Me.pc = "finish_scan"
  /\ scans_table' =
       [scans_table EXCEPT ![Me.scan_id].progress = 100,
                           ![Me.scan_id].end_time = now,
                           ![Me.scan_id].status = FINISHED]
  /\ SetMe([Me EXCEPT !.pc = "returned", !.calls = Append(@, "finish_scan")])
  /\ last' = Called("finish_scan", Me.scan_id, "None", "")
  /\ UNCHANGED data_manager

NextOvaldi ==
  \/ \E scan_id \in ConcScanIds, targets \in TargetsInputs,
        options \in OptionsInputs, vts \in VtsInputs, now \in Times :
       ovaldi_create_scan(scan_id, targets, options, vts, now)
  \/ \E scan_id \in ConcScanIds : exec_scan_start(scan_id)
  \/ exec_step_ok
  \/ exec_step_raise
  \/ \E err \in { "", "err" } : exec_step_failed(err)
  \/ exec_fetch_failed
  \/ \E type \in { LOG, ALARM } : exec_parse_add(type)
  \/ exec_parse_done
  \/ finish_scan_with_err
  \/ \E now \in StampTimes : finish_scan(now)

SpecOvaldi == Init /\ [][NextOvaldi]_vars

(***************************************************************************)
(* Two scans and every operation that changes a record, each addressed to  *)
(* one of them.                                                            *)
(***************************************************************************)
FrameProgressInputs == {50}

FrameResultInputs == { [type |-> 1, host |-> Host1, name |-> "n", value |-> ""] }

NextFrame ==
  \/ \E scan_id \in ScanIdInputs, targets \in TargetsInputs,
        vts \in VtsInputs, now \in Times :
       \E uuid \in uuid4(scan_id) :
         create_scan(scan_id, targets, OptionsNone, vts, now, uuid)
           /\ UNCHANGED procs
  \/ \E scan_id \in ScanIds, status \in ScanStatus :
       set_status(scan_id, status) /\ UNCHANGED procs
  \/ \E scan_id \in ScanIds : delete_scan(scan_id) /\ UNCHANGED procs
  \/ \E scan_id \in ScanIds, r \in FrameResultInputs :
       add_result(scan_id, r) /\ UNCHANGED procs
  \/ \E scan_id \in ScanIds : results_iterator(scan_id, TRUE) /\ UNCHANGED procs
  \/ \E scan_id \in ScanIds, progress \in FrameProgressInputs, now \in Times :
       set_progress(scan_id, progress, now) /\ UNCHANGED procs
  \/ \E scan_id \in DOMAIN scans_table, progress \in FrameProgressInputs :
       \E target \in DOMAIN scans_table[scan_id].target_progress :
         set_target_progress(scan_id, target, Host1, progress) /\ UNCHANGED procs
  \/ \E scan_id \in DOMAIN scans_table :
       \E target \in DOMAIN scans_table[scan_id].finished_hosts :
         /\ StoredFinished < MaxFinished
         /\ set_host_finished(scan_id, target, << Host1 >>)
         /\ UNCHANGED procs

SpecFrame == Init /\ [][NextFrame]_vars

(***************************************************************************)
(* One scan that is created, filled, stopped and resumed, create_scan      *)
(* being called with either of two target lists, vts and times.            *)
(* procs.sent holds the targets, the vts and the time of the last          *)
(* create_scan call.                                                       *)
(***************************************************************************)
ResumeScanIds == {"id1"}

ResumeTargetsInputs == { << Triple(TargetCidr) >>, << Triple(TargetLong) >> }

ResumeVtsInputs == {"vt1", "vt2"}

ResumeOptionsInputs == { OptionsNone, Options({<<"a", 1>>}) }

ResumeStatusInputs == { RUNNING, STOPPED }

resume_create_scan(scan_id, targets, options, vts, now) ==
  /\ create_scan(scan_id, targets, options, vts, now, scan_id)
  /\ procs' = [procs EXCEPT !.sent = << targets, vts, now >>]

NextResume ==
  \/ \E scan_id \in ResumeScanIds, targets \in ResumeTargetsInputs,
        options \in ResumeOptionsInputs, vts \in ResumeVtsInputs,
        now \in StampTimes :
       resume_create_scan(scan_id, targets, options, vts, now)
  \/ \E scan_id \in ResumeScanIds, status \in ResumeStatusInputs :
       set_status(scan_id, status) /\ UNCHANGED procs
  \/ \E scan_id \in ResumeScanIds, r \in FrameResultInputs :
       add_result(scan_id, r) /\ UNCHANGED procs
  \/ \E scan_id \in ResumeScanIds, now \in StampTimes :
       set_progress(scan_id, 100, now) /\ UNCHANGED procs
  \/ \E scan_id \in DOMAIN scans_table, progress \in FrameProgressInputs :
       \E target \in DOMAIN scans_table[scan_id].target_progress :
         set_target_progress(scan_id, target, Host1, progress) /\ UNCHANGED procs
  \/ \E scan_id \in DOMAIN scans_table :
       \E target \in DOMAIN scans_table[scan_id].finished_hosts :
         /\ StoredFinished < MaxFinished
         /\ set_host_finished(scan_id, target, << Host1 >>)
         /\ UNCHANGED procs

SpecResume == Init /\ [][NextResume]_vars

(***************************************************************************)
(* Properties.                                                             *)
(***************************************************************************)
Is(op, scan_id) == last'.op = op /\ last'.scan_id = scan_id

OthersKept(scan_id) ==
  /\ DOMAIN scans_table' = DOMAIN scans_table \ {scan_id}
  /\ \A k \in DOMAIN scans_table' : scans_table'[k] = scans_table[k]

\* C1: delete_scan on a RUNNING scan returns False and changes neither the
\* table nor the record; on an INIT, STOPPED or FINISHED scan it returns True
\* and removes that record and no other.
C1_DeleteScan ==
  [][\A id \in ScanIds :
       Is("delete_scan", id) /\ id_exists(id) =>
         IF get_status(id) = RUNNING
         THEN last'.ret = "False" /\ scans_table' = scans_table
         ELSE last'.ret = "True" /\ OthersKept(id)]_vars

C1_Witness ==
  /\ last.op = "delete_scan"
  /\ last.ret = "True"
  /\ last.scan_id \notin DOMAIN scans_table
  /\ \E k \in DOMAIN scans_table : scans_table[k].results # << >>

ResumeCondition(id) ==
  /\ id \notin {NoneId, EmptyId}
  /\ id \in DOMAIN scans_table
  /\ scans_table[id].status = STOPPED

\* C4: create_scan resumes exactly when scan_id is non-empty, in the table and
\* STOPPED; a resume adds no record, sets the status to INIT and returns the
\* scan_id it was given.
C4_ResumePath ==
  [][\A id \in ScanIdInputs :
       Is("create_scan", id) =>
         /\ last'.path = "resume" <=> ResumeCondition(id)
         /\ last'.path = "resume" =>
              /\ DOMAIN scans_table' = DOMAIN scans_table
              /\ scans_table'[id].status = INIT
              /\ last'.ret = id]_vars

FinishedHostsOf(info) ==
  UNION { {info.finished_hosts[t][i] : i \in DOMAIN info.finished_hosts[t]} :
          t \in DOMAIN info.finished_hosts }

RECURSIVE KeepFinished(_, _)
KeepFinished(results, finished) ==
  IF results = << >> THEN << >>
  ELSE IF Head(results).host \in finished
       THEN << Head(results) >> \o KeepFinished(Tail(results), finished)
       ELSE KeepFinished(Tail(results), finished)

\* C5: a resume leaves in the result list exactly the results of hosts in
\* finished_hosts, in their order, and ends with status INIT.
C5_ResumeDropsUnfinished ==
  [][\A id \in ScanIds :
       Is("create_scan", id) /\ ResumeCondition(id) =>
         /\ scans_table'[id].results =
              KeepFinished(scans_table[id].results, FinishedHostsOf(scans_table[id]))
         /\ scans_table'[id].status = INIT
         /\ last'.ret = id]_vars

\* C6: on a resume the options passed to create_scan, an empty mapping
\* included, become the record's options.
C6_OptionsReplaced ==
  [][\A id \in ScanIds, targets \in TargetsInputs, options \in OptionsInputs,
        vts \in VtsInputs, now \in Times :
       /\ ~options.none
       /\ ResumeCondition(id)
       /\ create_scan(id, targets, options, vts, now, id)
       => scans_table'[id].options = options.items]_vars

TargetSet(targets) == {targets[i].target : i \in DOMAIN targets}

IsFresh(info, scan_id) ==
  /\ info.status = INIT
  /\ info.progress = 0
  /\ info.results = << >>
  /\ info.end_time = EndTimeSentinel
  /\ info.finished_hosts = [t \in TargetSet(info.targets) |-> << >>]
  /\ info.target_progress = [t \in TargetSet(info.targets) |-> {}]
  /\ info.scan_id = scan_id

\* C7: a create_scan that does not resume stores a fresh record (INIT,
\* progress 0, no results, end_time at its sentinel, an empty finished_hosts
\* and target_progress entry per target) under the identifier it returns,
\* which is newly generated when scan_id is empty or None.
C7_FreshRecord ==
  [][\A id \in ScanIdInputs :
       Is("create_scan", id) /\ ~ResumeCondition(id) =>
         /\ last'.ret \in DOMAIN scans_table'
         /\ IsFresh(scans_table'[last'.ret], last'.ret)
         /\ IF id \in {NoneId, EmptyId}
            THEN last'.ret \notin DOMAIN scans_table
            ELSE last'.ret = id]_vars

C7_Witness ==
  /\ last.op = "create_scan"
  /\ last.path = "fresh"
  /\ last.scan_id = NoneId
  /\ last.ret \in DOMAIN scans_table
  /\ Cardinality(DOMAIN scans_table) = 2

\* C8: create_scan with the identifier of an existing INIT, RUNNING or
\* FINISHED record leaves that record's results, progress and status as
\* they are.
C8_NoReplace ==
  [][\A id \in ScanIds :
       /\ Is("create_scan", id)
       /\ id_exists(id)
       /\ get_status(id) \in {INIT, RUNNING, FINISHED}
       => /\ scans_table'[id].results = scans_table[id].results
          /\ scans_table'[id].progress = scans_table[id].progress
          /\ scans_table'[id].status = scans_table[id].status]_vars

StatusEdges == LegalSetStatus \cup { <<STOPPED, INIT>> }

\* C9: when set_status is called only for INIT->RUNNING, RUNNING->FINISHED
\* and RUNNING->STOPPED, the status of an identifier that stays in the table
\* changes only along those edges and STOPPED->INIT.
C9_StatusEdges ==
  [][\A id \in ScanIds :
       /\ id \in DOMAIN scans_table
       /\ id \in DOMAIN scans_table'
       /\ scans_table'[id].status # scans_table[id].status
       => <<scans_table[id].status, scans_table'[id].status>> \in StatusEdges]_vars

\* C2: whenever a record leaves the table, under any interleaving of the
\* coordinator's delete_scan with set_status calls of other processes, its
\* status at that moment is not RUNNING.
C2_NeverRemovedRunning ==
  [][\A id \in DOMAIN scans_table :
       id \notin DOMAIN scans_table' => scans_table[id].status # RUNNING]_vars

\* C3: once no add_result call is in progress, every result whose add_result
\* call on the scan has completed is in the scan's result list.
C3_NoLostResult ==
  AllIdle =>
    \A id \in DOMAIN scans_table :
      \A r \in procs.added : InSeq(r, scans_table[id].results)

\* C10: set_progress and set_target_progress with a progress outside
\* 0 < p <= 100 raise nothing and leave the table, and so the whole record,
\* as it was.
C10_OutOfRangeIgnored ==
  [][\A id \in ProgressScanIds, progress \in ProgressInputs :
       ~(0 < progress /\ progress <= 100) =>
         /\ (\E now \in StampTimes : set_progress(id, progress, now))
              => scans_table' = scans_table /\ last'.ret = "None"
         /\ (\E target \in TargetSpecInputs, host \in Hosts \cup {Host3} :
               set_target_progress(id, target, host, progress))
              => scans_table' = scans_table /\ last'.ret = "None"]_vars

C10_Witness ==
  /\ last.op = "set_progress"
  /\ last.path = "ignored"
  /\ last.scan_id \in DOMAIN scans_table
  /\ scans_table[last.scan_id].progress = 100
  /\ scans_table[last.scan_id].end_time # EndTimeSentinel
  /\ \E t \in DOMAIN scans_table[last.scan_id].target_progress :
       scans_table[last.scan_id].target_progress[t] # {}

\* C11: a record whose progress is 100 has an end_time other than the
\* sentinel create_scan stores, and a record's progress becomes 100 only in a
\* set_progress(scan_id, 100) call.
C11_EndTimeAtHundred ==
  /\ [](\A id \in DOMAIN scans_table :
          scans_table[id].progress = 100 =>
            scans_table[id].end_time # EndTimeSentinel)
  /\ [][\A id \in DOMAIN scans_table' :
          /\ scans_table'[id].progress = 100
          /\ id \in DOMAIN scans_table => scans_table[id].progress # 100
          => \E now \in StampTimes : set_progress(id, 100, now)]_vars

C11_Witness ==
  /\ last.op = "set_progress"
  /\ last.path = "applied"
  /\ last.scan_id \in DOMAIN scans_table
  /\ scans_table[last.scan_id].progress = 100
  /\ scans_table[last.scan_id].end_time = 2

\* C12: in every step on a record that stays in the table and is not replaced
\* by a new one, the record's progress does not decrease, except in a resume,
\* which sets it to 0.
C12_ProgressMonotonic ==
  [][\A id \in DOMAIN scans_table \cap DOMAIN scans_table' :
       ~(last'.op = "create_scan" /\ last'.path = "fresh") =>
         IF last'.op = "create_scan" /\ last'.path = "resume" /\ last'.scan_id = id
         THEN scans_table'[id].progress = 0
         ELSE scans_table'[id].progress >= scans_table[id].progress]_vars

HostSet(hosts) == {hosts[i] : i \in DOMAIN hosts}

RecordedValues(d) == [h \in {item[1] : item \in d} |->
                        (CHOOSE item \in d : item[1] = h)[2]]

\* C13: get_target_progress of a target of the scan returns the sum of the
\* values recorded for the target divided by the number of hosts the target
\* expands to (exactly, or rounded down where / is the integer division);
\* with 4 hosts and two of them recorded at 100 it returns 50.
C13_TargetProgress ==
  [][\A id \in TargetScanIds, target \in TargetQueryInputs, py \in PythonVersions :
       /\ query_get_target_progress(id, target, py)
       /\ target \in DOMAIN scans_table[id].target_progress
       /\ target_str_to_list(target).ok
       => LET recorded == RecordedValues(scans_table[id].target_progress[target])
              total == Cardinality(HostSet(target_str_to_list(target).hosts))
              sum == SumOver(recorded, DOMAIN recorded)
          IN  /\ last'.ret = "number"
              /\ \/ last'.val[1] * total = sum * last'.val[2]
                 \/ /\ last'.val[2] = 1
                    /\ last'.val[1] * total <= sum
                    /\ sum < (last'.val[1] + 1) * total
              /\ total = 4 /\ Cardinality(DOMAIN recorded) = 2
                 /\ (\A h \in DOMAIN recorded : recorded[h] = 100)
                 => last'.val = << 50, 1 >>]_vars

C13_Witness ==
  /\ last.op = "get_target_progress"
  /\ last.args = << Target4 >>
  /\ last.val = << 50, 1 >>
  /\ scans_table[last.scan_id].target_progress[Target4] =
       { << Host1, 100 >>, << Host2, 100 >> }

KeysOf(d) == {item[1] : item \in d}

\* C14: the hosts recorded in target_progress[t] are among the hosts target t
\* expands to, and get_target_progress of a target with a host of its
\* expansion not recorded is below 100.
C14_KeysWithinTarget ==
  \A id \in DOMAIN scans_table :
    \A t \in DOMAIN scans_table[id].target_progress :
      LET expanded == HostSet(target_str_to_list(t).hosts)
          keys == KeysOf(scans_table[id].target_progress[t])
      IN  /\ keys \subseteq expanded
          /\ expanded \ keys # {} =>
               \A py \in PythonVersions :
                 LET r == get_target_progress(scans_table[id], t, py)
                 IN  r.exc = "" => r.val[1] < 100 * r.val[2]

RaisedErrors == {"TypeError", "AttributeError", "ZeroDivisionError", "NameError"}

ExpandsToNothing(target) ==
  \/ ~target_str_to_list(target).ok
  \/ target_str_to_list(target).hosts = << >>

\* C15: get_target_progress of a target that expands to no hosts, because it
\* does not resolve or resolves to an empty list, raises an error to its
\* caller and returns no number.
C15_NoHostsRaises ==
  [][\A id \in TargetScanIds, target \in TargetQueryInputs, py \in PythonVersions :
       query_get_target_progress(id, target, py) /\ ExpandsToNothing(target) =>
         /\ last'.ret \in RaisedErrors
         /\ last'.val = << >>]_vars

C15_Witness ==
  /\ last.op = "get_target_progress"
  /\ last.args = << TargetBad >>
  /\ last.ret = "TypeError"
  /\ TargetBad \in DOMAIN scans_table[last.scan_id].target_progress
  /\ scans_table[last.scan_id].target_progress[TargetBad] # {}

AllExpanded(info) ==
  UNION { HostSet(target_str_to_list(t).hosts) : t \in DOMAIN info.finished_hosts }

\* C16: whatever hosts were reported finished, the same host twice and
\* targets with common hosts included, get_hosts_unfinished raises nothing
\* and returns the hosts of the targets' expansions that are in no
\* finished_hosts entry, and only those.
C16_HostsUnfinished ==
  [][\A id \in HostScanIds :
       query_get_hosts_unfinished(id) =>
         /\ last'.ret = "list"
         /\ HostSet(last'.val) =
              AllExpanded(scans_table[id]) \ FinishedHostsOf(scans_table[id])]_vars

ResultEntry(r) ==
  [ type |-> r.type, host |-> r.host, name |-> r.name, value |-> r.value,
    port |-> "", test_id |-> "", severity |-> "", qod |-> "" ]

\* C17: add_result with a name or a value that is not empty puts one entry
\* with the fields given at the end of the scan's result list and leaves the
\* entries before it as they were; with both empty it fails and the list
\* stays as it was.
C17_AddResult ==
  [][\A id \in ResultScanIds, r \in ResultFieldInputs :
       add_result(id, r) =>
         IF r.name # "" \/ r.value # ""
         THEN /\ last'.ret = "None"
              /\ scans_table'[id].results =
                   scans_table[id].results \o << ResultEntry(r) >>
         ELSE /\ last'.ret = "AssertionError"
              /\ scans_table'[id].results = scans_table[id].results]_vars

C17_Witness ==
  /\ last.op = "add_result"
  /\ last.ret = "None"
  /\ last.scan_id \in DOMAIN scans_table
  /\ Len(scans_table[last.scan_id].results) = 2
  /\ scans_table[last.scan_id].results[1].name = ""
  /\ scans_table[last.scan_id].results[2].value = ""

\* C18: results_iterator with pop_res true yields the stored results in the
\* order they were added and leaves the list empty; with pop_res false it
\* yields the same and leaves the list as it was; so the results drained so
\* far followed by those still stored are the results added, each once.
C18_ResultsIterator ==
  /\ [][\A id \in ResultScanIds :
          Is("results_iterator", id) /\ id_exists(id) =>
            /\ last'.val = scans_table[id].results
            /\ scans_table'[id].results =
                 IF last'.args = << TRUE >> THEN << >> ELSE scans_table[id].results]_vars
  /\ [](\A id \in ResultScanIds :
          id_exists(id) =>
            procs.fetched \o scans_table[id].results = procs.sent)

C18_Witness ==
  /\ last.op = "results_iterator"
  /\ last.args = << TRUE >>
  /\ Len(last.val) = 1
  /\ Len(procs.fetched) = 3
  /\ procs.fetched = procs.sent
  /\ scans_table[last.scan_id].results = << >>

\* C19: the data manager exists exactly when the table holds a scan: the
\* first create_scan creates it and the delete_scan that removes the last
\* record discards it.
C19_ManagerIffScans == data_manager <=> DOMAIN scans_table # {}

C19_Witness ==
  /\ last.op = "delete_scan"
  /\ last.ret = "True"
  /\ DOMAIN scans_table = {}
  /\ ~data_manager

NetworkOf(addr, n) == addr - (addr % (2 ^ (32 - n)))

BroadcastOf(addr, n) == NetworkOf(addr, n) + 2 ^ (32 - n) - 1

\* C20: for A.B.C.D/n with 0 < n <= 30 target_to_ipv4_cidr returns the
\* 2^(32-n) - 2 addresses from the network address + 1 to the broadcast
\* address - 1 in ascending order, so neither of the two; for n <= 0 and for
\* n > 30 it returns None.
C20_CidrExpansion ==
  last.op = "target_to_ipv4_cidr" =>
    LET addr == last.args[1]
        n == last.args[2]
    IN  IF 0 < n /\ n <= 30
        THEN /\ last.ret = "list"
             /\ Len(last.val) = 2 ^ (32 - n) - 2
             /\ last.val[1] = NetworkOf(addr, n) + 1
             /\ last.val[Len(last.val)] = BroadcastOf(addr, n) - 1
             /\ \A i \in 1..(Len(last.val) - 1) : last.val[i + 1] = last.val[i] + 1
             /\ \A i \in DOMAIN last.val :
                  last.val[i] \notin {NetworkOf(addr, n), BroadcastOf(addr, n)}
        ELSE last.ret = "None" /\ last.val = << >>

C20_Witness ==
  /\ last.op = "target_to_ipv4_cidr"
  /\ last.args = << Net10 + 66051, 24 >>
  /\ Len(last.val) = 254
  /\ last.val[1] = Net10 + 66049

IsLongRange(token) == token.kind = "ipv4_long"

Reversed(token) == IsLongRange(token) /\ token.arg < token.addr

\* C21: target_str_to_list of one long range addr1-addr2 with addr2 >= addr1
\* returns the addresses addr1..addr2 in ascending order, and of an input
\* with a long range whose addr2 < addr1 it returns None.
C21_LongRange ==
  last.op = "target_str_to_list" =>
    LET target_str == last.args[1]
    IN  /\ Len(target_str) = 1 /\ IsLongRange(target_str[1])
             /\ ~Reversed(target_str[1]) =>
             /\ last.ret = "list"
             /\ last.val = [i \in 1..(target_str[1].arg - target_str[1].addr + 1) |->
                              target_str[1].addr + i - 1]
        /\ (\E i \in DOMAIN target_str : Reversed(target_str[i])) =>
             last.ret = "None"

\* A token no form matches: a block outside 1..30 and a string with a space
MatchesNoForm(token) ==
  \/ token.kind = "invalid"
  \/ token.kind = "ipv4_cidr" /\ (token.arg <= 0 \/ token.arg > 30)

\* C22: target_str_to_list of an input with a token that matches no form
\* returns None and no list of the other tokens' hosts, wherever the token
\* stands.
C22_FailClosed ==
  last.op = "target_str_to_list" =>
    ((\E i \in DOMAIN last.args[1] : MatchesNoForm(last.args[1][i])) =>
       last.ret = "None" /\ last.val = << >>)

C22_Witness ==
  /\ last.op = "target_str_to_list"
  /\ Len(last.args[1]) = 3
  /\ last.args[1][1].kind = "ipv4"
  /\ last.args[1][2].kind = "hostname"
  /\ MatchesNoForm(last.args[1][3])
  /\ last.ret = "None"

RECURSIVE Concat(_)
Concat(lists) ==
  IF lists = << >> THEN << >> ELSE Head(lists) \o Concat(Tail(lists))

FirstAt(x, s) == CHOOSE i \in DOMAIN s : s[i] = x /\ \A j \in 1..(i - 1) : s[j] # x

\* C23: the list target_str_to_list returns holds no host twice, holds every
\* host of every token, and has the hosts in the order of their first
\* occurrence in the input.
C23_DedupFirstSeen ==
  last.op = "target_str_to_list" /\ last.ret = "list" =>
    LET all == Concat([i \in DOMAIN last.args[1] |->
                         target_to_list(last.args[1][i]).hosts])
    IN  /\ \A i, j \in DOMAIN last.val : i # j => last.val[i] # last.val[j]
        /\ HostSet(last.val) = HostSet(all)
        /\ \A i, j \in DOMAIN last.val :
             i < j => FirstAt(last.val[i], all) < FirstAt(last.val[j], all)

C23_Witness ==
  /\ last.op = "target_str_to_list"
  /\ last.ret = "list"
  /\ Len(last.args[1]) = 3
  /\ last.args[1][1].kind = "ipv4_cidr"
  /\ last.args[1][2].kind = "ipv4_long"
  /\ last.args[1][3].kind = "ipv4"
  /\ last.val = << Host1, Host2, Host3, Host4 >>

ListedPorts(items) == UNION { items[i].lo .. items[i].hi : i \in DOMAIN items }

Ascending(items) == \A i \in DOMAIN items : items[i].lo <= items[i].hi

PortSet(port_list) == { port_list[i] : i \in DOMAIN port_list }

\* C24: for a port string with neither 'T' nor 'U' whose items are single
\* ports and ranges a-b with a <= b, ports_as_list returns lists, the TCP list
\* holds exactly the listed ports and the ports of the ranges, and the UDP
\* list is empty.
C24_BareTcp ==
  /\ last.op = "ports_as_list"
  /\ last.args[2].form = "bare"
  /\ Ascending(last.args[2].tcp)
  => /\ last.ret = "lists"
     /\ PortSet(last.val[1]) = ListedPorts(last.args[2].tcp)
     /\ last.val[2] = << >>

StrictlyAscending(port_list) ==
  \A i \in 1..(Len(port_list) - 1) : port_list[i] < port_list[i + 1]

\* C25: both lists ports_as_list returns are in strictly ascending order, so
\* sorted and without a port twice.
C25_SortedUnique ==
  last.op = "ports_as_list" /\ last.ret = "lists" =>
    StrictlyAscending(last.val[1]) /\ StrictlyAscending(last.val[2])

Canonical(items) ==
  /\ \A i \in DOMAIN items : items[i].range => items[i].lo < items[i].hi
  /\ \A i \in 1..(Len(items) - 1) : items[i].hi + 1 < items[i + 1].lo

\* C26: for a port string with neither 'T' nor 'U' whose items are ascending,
\* apart from each other and folded into ranges, ports_as_list returns lists
\* and port_list_compress of the TCP list is the string itself.
C26_RoundTrip ==
  last.args[2].form = "bare" /\ Canonical(last.args[2].tcp) =>
    /\ last.op = "ports_as_list" => last.ret = "lists"
    /\ last.op = "port_list_compress" => last.val = last.args[1]

WithSep(d, sep) == [d EXCEPT !.sep = sep]

\* C27: a port string whose T: segment is followed by the U: segment with
\* nothing between them is accepted, its lists are those of the same string
\* with a comma before 'U', and "T:1,3U:22" gives the TCP list 1, 3 and the
\* UDP list 22.
C27_ImplicitBoundary ==
  /\ last.op = "ports_as_list"
  /\ last.args[2].form = "TU"
  /\ last.args[2].sep = << >>
  => LET comma == ports_as_list(Render(WithSep(last.args[2], << "," >>)))
     IN  /\ last.ret = "lists"
         /\ comma.ret = "lists"
         /\ last.val = << comma.tcp, comma.udp >>
         /\ last.args[1] = << "T", ":", "1", ",", "3", "U", ":", "2", "2" >>
              => last.val = << << 1, 3 >>, << 22 >> >>

C27_Witness ==
  /\ last.op = "ports_as_list"
  /\ last.args[1] = << "T", ":", "1", ",", "3", "U", ":", "2", "2" >>
  /\ last.val = << << 1, 3 >>, << 22 >> >>
  /\ Render(WithSep(last.args[2], << "," >>))
       = << "T", ":", "1", ",", "3", ",", "U", ":", "2", "2" >>

NumberOf(c, port_str) == Cardinality({ i \in DOMAIN port_str : port_str[i] = c })

AllowedChars ==
  { "T", "U", ":", ",", " ", "-", "0", "1", "2", "3", "4", "5", "6", "7", "8", "9" }

\* C28: ports_as_list returns the Invalid result, with no port lists, for a
\* string that holds 'T' or 'U' more than once, fewer ':' than letters 'T'
\* and 'U', or a character that is not T, U, ':', a digit, ',', a blank or '-'.
C28_Rejects ==
  /\ last.op = "ports_as_list"
  /\ \/ NumberOf("T", last.args[1]) > 1
     \/ NumberOf("U", last.args[1]) > 1
     \/ NumberOf(":", last.args[1])
          < NumberOf("T", last.args[1]) + NumberOf("U", last.args[1])
     \/ \E i \in DOMAIN last.args[1] : last.args[1][i] \notin AllowedChars
  => last.ret = "Invalid" /\ last.val = << << >>, << >> >>

C28_Witness ==
  /\ last.op = "ports_as_list"
  /\ last.args[1] = << "T", ":", "T", ":" >>
  /\ last.ret = "Invalid"

HasReversedRange(items) == \E i \in DOMAIN items : items[i].lo > items[i].hi

\* C29: a port string that holds a range a-b with a > b gets the Invalid
\* result from ports_as_list.
C29_ReversedRange ==
  /\ last.op = "ports_as_list"
  /\ HasReversedRange(last.args[2].tcp) \/ HasReversedRange(last.args[2].udp)
  => last.ret = "Invalid"

Swapped(d) == [d EXCEPT !.form = IF d.form = "TU" THEN "UT" ELSE "TU"]

\* The T segment and the U segment of a written-out string, each from its
\* letter up to the other letter or the end of the string
TSegment(d) ==
  << "T", ":" >> \o RenderList(d.tcp) \o (IF d.form = "TU" THEN d.sep ELSE << >>)

USegment(d) ==
  << "U", ":" >> \o RenderList(d.udp) \o (IF d.form = "UT" THEN d.sep ELSE << >>)

\* C30: for a string with a T: and a U: segment in either order,
\* port_str_arrange returns the T segment followed by the U segment, each as
\* it was in the input, and ports_as_list returns for the string what it
\* returns for the string with the two segments swapped.
C30_TcpFirst ==
  /\ /\ last.op = "port_str_arrange"
     /\ NumberOf("T", last.args[1]) = 1
     /\ NumberOf("U", last.args[1]) = 1
     => \E i, j \in DOMAIN last.val :
          i < j /\ last.val[i] = "T" /\ last.val[j] = "U"
  /\ last.args[2].form \in {"TU", "UT"} =>
       /\ last.op = "port_str_arrange" =>
            last.val = TSegment(last.args[2]) \o USegment(last.args[2])
       /\ last.op = "ports_as_list" =>
            LET swapped == ports_as_list(Render(Swapped(last.args[2])))
            IN  /\ last.ret = swapped.ret
                /\ last.val = << swapped.tcp, swapped.udp >>

C30_Witness ==
  /\ last.op = "ports_as_list"
  /\ last.args[1] = << "U", ":", "2", "2", ",", "T", ":", "1", ",", "3" >>
  /\ last.ret = "lists"
  /\ last.val = << << 1, 3 >>, << 22 >> >>
  /\ port_str_arrange(<< "U", ":", "2", "2", "T", ":", "1", ",", "3" >>)
       = << "T", ":", "1", ",", "3", "U", ":", "2", "2" >>

Kinds == { ALARM, LOG, ERROR, HOST_DETAIL }

Labels == { "Alarm", "Log Message", "Error Message", "Host Detail" }

\* C31: get_str gives the four result types four different labels and
\* get_type gives the four labels their types: get_type of the label of a
\* type is the type, get_str of the type of a label is the label, and for any
\* other value either function ends in an AssertionError.
C31_ResultTypeMaps ==
  LET value == last.args[1]
      is_kind == value.t = "int" /\ value.n \in Kinds
      is_label == value.t = "str" /\ value.s \in Labels
  IN  /\ last.op = "get_str" =>
           IF is_kind THEN last.ret = "value" /\ last.val.t = "str"
                           /\ last.val.s \in Labels
           ELSE last.ret = "AssertionError"
      /\ last.op = "get_type" =>
           IF is_label THEN last.ret = "value" /\ last.val.t = "int"
                            /\ last.val.n \in Kinds
           ELSE last.ret = "AssertionError"
      /\ last.op = "get_type_of_str" => last.ret = "value" /\ last.val = value
      /\ last.op = "get_str_of_type" => last.ret = "value" /\ last.val = value
      /\ \A k1, k2 \in Kinds :
           k1 # k2 => get_str(IntValue(k1)).val # get_str(IntValue(k2)).val

C31_Witness ==
  /\ last.op = "get_type_of_str"
  /\ last.args[1] = IntValue(HOST_DETAIL)
  /\ last.val = IntValue(HOST_DETAIL)

Occurrences(r, s) == Cardinality({ i \in DOMAIN s : s[i] = r })

\* C32: with one worker adding results and the coordinator draining them,
\* no result is returned by two draining calls, and once both are between
\* calls every result that was added has been returned by a draining call or
\* is still stored for the next one.
C32_AtomicDrain ==
  \A r \in procs.added :
    /\ Occurrences(r, procs.fetched) <= 1
    /\ AllIdle /\ id_exists("id1") =>
         Occurrences(r, procs.fetched)
           + Occurrences(r, scans_table["id1"].results) = 1

\* C33: once both workers are between calls, every host a returned
\* set_target_progress stored has an entry in target_progress of its target,
\* and every host a returned set_host_finished stored is in finished_hosts of
\* its target.
C33_BothEntries ==
  AllIdle /\ id_exists("id1") =>
    \A e \in procs.added :
      IF e[1] = "target_progress"
      THEN \E item \in scans_table["id1"].target_progress[e[2]] : item[1] = e[3]
      ELSE \E i \in DOMAIN scans_table["id1"].finished_hosts[e[2]] :
             scans_table["id1"].finished_hosts[e[2]][i] = e[3]

Returned34 == Me.pc = "returned"

ResultAdds == { "add_scan_error", "add_scan_log", "add_scan_alarm" }

\* C34: an exec_scan that has returned has called finish_scan once, as its
\* last call on the scan; when connecting, opening SFTP, checking ovaldi or
\* creating the remote directory failed, add_scan_error was called before it
\* and the scan holds an Error result; and at no time does a call that adds a
\* result follow finish_scan.
C34_FinishOnceLast ==
  /\ Me.pc # "idle" =>
       \A i \in DOMAIN Me.calls : Me.calls[i] = "finish_scan" => i = Len(Me.calls)
  /\ Returned34 =>
       /\ Me.calls # << >>
       /\ Me.calls[Len(Me.calls)] = "finish_scan"
       /\ Occurrences("finish_scan", Me.calls) = 1
       /\ Me.failed \in HandledSteps =>
            /\ \E i \in 1..(Len(Me.calls) - 1) : Me.calls[i] = "add_scan_error"
            /\ \E i \in DOMAIN scans_table[Me.scan_id].results :
                 scans_table[Me.scan_id].results[i].type = ERROR

C34_Witness ==
  /\ Returned34
  /\ Me.failed = "mkdir"
  /\ Me.calls = << "add_scan_error", "finish_scan" >>

\* C35: the progress of every record is within 0..100 and every value
\* recorded for a host in target_progress is within 1..100, whatever integers
\* set_progress and set_target_progress are called with.
C35_ProgressInRange ==
  \A id \in DOMAIN scans_table :
    /\ scans_table[id].progress \in 0..100
    /\ \A t \in DOMAIN scans_table[id].target_progress :
         \A item \in scans_table[id].target_progress[t] : item[2] \in 1..100

C35_Witness ==
  /\ last.op = "set_target_progress"
  /\ last.path = "ignored"
  /\ id_exists("id1")
  /\ scans_table["id1"].progress = 100
  /\ \E t \in DOMAIN scans_table["id1"].target_progress :
       \E item \in scans_table["id1"].target_progress[t] : item[2] = 100

\* The scan a step was addressed to: the identifier create_scan returns for a
\* new record, the scan_id argument of every other call
Addressed ==
  IF last'.op = "create_scan" /\ last'.path = "fresh" THEN last'.ret
  ELSE last'.scan_id

\* C36: a step of add_result, set_progress, set_target_progress,
\* set_host_finished, set_status, a draining results_iterator, a resume or
\* delete_scan leaves every record but the one it is addressed to in the table
\* and unchanged, and a create_scan that generates its identifier leaves every
\* record of the table unchanged.
C36_OtherScansUnchanged ==
  [][/\ \A b \in DOMAIN scans_table \ {Addressed} :
          b \in DOMAIN scans_table' /\ scans_table'[b] = scans_table[b]
     /\ last'.op = "create_scan" /\ last'.scan_id \in {NoneId, EmptyId} =>
          \A b \in DOMAIN scans_table :
            b \in DOMAIN scans_table' /\ scans_table'[b] = scans_table[b]]_vars

C36_Witness ==
  /\ last.op = "delete_scan"
  /\ last.ret = "True"
  /\ last.scan_id = "id1"
  /\ id_exists("id2")
  /\ scans_table["id2"].results # << >>
  /\ scans_table["id2"].progress = 50

\* C37: a create_scan on a STOPPED record of the table, whatever targets and
\* vts it is called with, leaves the record's targets, vts, start_time,
\* end_time, finished_hosts and target_progress as they were; of the other
\* fields only status, options and results may change.
C37_ResumeKeepsFields ==
  [][\A id \in ResumeScanIds :
       Is("create_scan", id) /\ ResumeCondition(id) =>
         /\ id \in DOMAIN scans_table'
         /\ scans_table'[id].targets = scans_table[id].targets
         /\ scans_table'[id].vts = scans_table[id].vts
         /\ scans_table'[id].start_time = scans_table[id].start_time
         /\ scans_table'[id].end_time = scans_table[id].end_time
         /\ scans_table'[id].finished_hosts = scans_table[id].finished_hosts
         /\ scans_table'[id].target_progress = scans_table[id].target_progress
         /\ scans_table'[id].progress = scans_table[id].progress
         /\ scans_table'[id].scan_id = scans_table[id].scan_id]_vars

C37_Witness ==
  /\ last.op = "create_scan"
  /\ last.path = "resume"
  /\ id_exists("id1")
  /\ procs.sent[1] # scans_table["id1"].targets
  /\ procs.sent[2] # scans_table["id1"].vts
  /\ procs.sent[3] # scans_table["id1"].start_time
  /\ scans_table["id1"].end_time # EndTimeSentinel
  /\ \E t \in DOMAIN scans_table["id1"].finished_hosts :
       /\ scans_table["id1"].finished_hosts[t] # << >>
       /\ scans_table["id1"].target_progress[t] # {}

====
